---- MODULE Spec2Model ----
(***************************************************************************)
(* Verification model of the PDF compressor's ladder search:               *)
(*   web/src/lib/compress/engine.ts     compressPdf, compressPdfSinglePass *)
(*   web/src/lib/compress/rasterize.ts  compressPdfRasterized              *)
(*   web/src/lib/compress/worker.ts     the Web Worker wrapper             *)
(*   web/src/lib/compress/runWorker.ts  runCompressionInWorker             *)
(*                                                                         *)
(* Sizes are byte counts.  A quality q in (0,1] is carried as the integer  *)
(* 100*q, a raster scale s as 10*s, and targetMb as tenths of a megabyte,  *)
(* so that every comparison of the code is exact integer arithmetic.       *)
(***************************************************************************)
EXTENDS Integers, Sequences, FiniteSets, TLC

\* ------------------------------------------------------------------------
\* Bounds of the model
\* ------------------------------------------------------------------------

\* Largest number of rung attempts of one invocation that may fail for a
\* reason other than an unparseable input (a failing save or page render).
MaxRungFaults == 1

\* Largest originalSize drawn for the estimation specification.
MaxEstSize == 26

\* Largest image side and cap of the exhaustive part of the resize check.
MaxImageDim == 12

\* Largest number of lines of a response stream.
MaxLines == 3

\* Largest number of redirects followed for one request.
MaxHops == 3

\* ------------------------------------------------------------------------
\* Small helpers
\* ------------------------------------------------------------------------

None == [none |-> TRUE]

Min(a, b) == IF a <= b THEN a ELSE b

Max(a, b) == IF a >= b THEN a ELSE b

RECURSIVE SumLen(_)
\* Sum of the len fields of a sequence of objects.
SumLen(s) == IF s = << >> THEN 0 ELSE Head(s).len + SumLen(Tail(s))

IsPrefix(s, t) == /\ Len(s) <= Len(t)
                  /\ SubSeq(t, 1, Len(s)) = s

\* ------------------------------------------------------------------------
\* The ladders
\* ------------------------------------------------------------------------

COMPRESSION_LADDER_Alt ==
  << [name |-> "light",      maxDimension |-> 2000, quality |-> 85],
     [name |-> "moderate",   maxDimension |-> 1600, quality |-> 75],
     [name |-> "standard",   maxDimension |-> 1200, quality |-> 65],
     [name |-> "aggressive", maxDimension |-> 1000, quality |-> 55],
     [name |-> "heavy",      maxDimension |-> 800,  quality |-> 45],
     [name |-> "extreme",    maxDimension |-> 600,  quality |-> 53] >>

COMPRESSION_LADDER ==
  << [name |-> "light",      maxDimension |-> 2000, quality |-> 85],
     [name |-> "moderate",   maxDimension |-> 1600, quality |-> 75],
     [name |-> "standard",   maxDimension |-> 1200, quality |-> 65],
     [name |-> "aggressive", maxDimension |-> 1000, quality |-> 55],
     [name |-> "heavy",      maxDimension |-> 800,  quality |-> 45],
     [name |-> "extreme",    maxDimension |-> 600,  quality |-> 35] >>

RASTER_LADDER ==
  << [name |-> "raster-light",   scale |-> 15, quality |-> 82],
     [name |-> "raster-medium",  scale |-> 12, quality |-> 68],
     [name |-> "raster-heavy",   scale |-> 10, quality |-> 55],
     [name |-> "raster-extreme", scale |-> 8,  quality |-> 45] >>

\* Number of bytes in a megabyte as the drivers use it (1024 * 1024).
BytesPerMb == 1024 * 1024

\* targetBytes = Math.floor(targetMb * 1024 * 1024), targetMb given in tenths.
\* \div is the floor division, as Math.floor is, for negative values too.
TargetBytesOf(targetTenths) == (targetTenths * BytesPerMb) \div 10

\* ------------------------------------------------------------------------
\* Starting-rung estimation.  Indices are 0-based as in the source.
\* ratioNeeded = originalSize / targetSize is an IEEE double; for the sizes
\* a byte buffer can have (below 2^52) ratio < k/2 is exactly
\* 2*originalSize < k*targetSize when targetSize > 0.  A targetSize of 0
\* gives Infinity (no comparison '<' holds) and a negative targetSize gives
\* a ratio <= 0 (every comparison holds).
\* ------------------------------------------------------------------------

RatioBelowAlt(originalSize, targetSize, twice) ==
  IF targetSize > 0 THEN 2 * originalSize <= twice * targetSize
  ELSE targetSize < 0

\* ratioNeeded < twice/2
RatioBelow(originalSize, targetSize, twice) ==
  IF targetSize > 0 THEN 2 * originalSize < twice * targetSize
  ELSE targetSize < 0

estimateStartingStepAlt(originalSize, targetSize) ==
  IF targetSize >= originalSize THEN 0
  ELSE IF RatioBelow(originalSize, targetSize, 3) THEN 0
  ELSE IF RatioBelow(originalSize, targetSize, 4) THEN 1
  ELSE IF RatioBelow(originalSize, targetSize, 6) THEN 2
  ELSE IF RatioBelow(originalSize, targetSize, 8) THEN 3
  ELSE IF RatioBelow(originalSize, targetSize, 10) THEN 4
  ELSE IF RatioBelow(originalSize, targetSize, 12) THEN 5
  ELSE 6

\* engine.ts estimateStartingStep
estimateStartingStep(originalSize, targetSize) ==
  IF targetSize >= originalSize THEN 0
  ELSE IF RatioBelow(originalSize, targetSize, 3) THEN 0
  ELSE IF RatioBelow(originalSize, targetSize, 4) THEN 1
  ELSE IF RatioBelow(originalSize, targetSize, 6) THEN 2
  ELSE IF RatioBelow(originalSize, targetSize, 8) THEN 3
  ELSE IF RatioBelow(originalSize, targetSize, 10) THEN 4
  ELSE 5

estimateStartingStepRasterAlt(originalSize, targetSize) ==
  Min(estimateStartingStep(originalSize, targetSize), 3)

\* rasterize.ts estimateStartingStep
estimateStartingStepRaster(originalSize, targetSize) ==
  IF targetSize >= originalSize THEN 0
  ELSE IF RatioBelow(originalSize, targetSize, 4) THEN 0
  ELSE IF RatioBelow(originalSize, targetSize, 8) THEN 1
  ELSE IF RatioBelow(originalSize, targetSize, 16) THEN 2
  ELSE 3

\* ------------------------------------------------------------------------
\* Image Transcoder
\* ------------------------------------------------------------------------

\* Math.round of the non-negative rational num/den (round half up).
RoundDiv(num, den) == (2 * num + den) \div (2 * den)

resizeImageAlt(width, height, maxDimension) ==
  IF width >= height
  THEN [width  |-> RoundDiv(width * maxDimension, width),
        height |-> RoundDiv(height * maxDimension, width)]
  ELSE [width  |-> RoundDiv(width * maxDimension, height),
        height |-> RoundDiv(height * maxDimension, height)]

\* resizeImage: scale = Math.min(maxDimension/width, maxDimension/height).
resizeImage(width, height, maxDimension) ==
  IF width <= maxDimension /\ height <= maxDimension
  THEN [width |-> width, height |-> height]
  ELSE IF width >= height
       THEN [width  |-> RoundDiv(width * maxDimension, width),
             height |-> RoundDiv(height * maxDimension, width)]
       ELSE [width  |-> RoundDiv(width * maxDimension, height),
             height |-> RoundDiv(height * maxDimension, height)]

\* Byte length of the JPEG the canvas encoder produces for a width x height
\* bitmap at the given quality (in percent).  The encoder belongs to the
\* browser; it is modelled as a fixed function of the pixel count and the
\* quality, one byte per four pixels at quality 1, plus a header.
JpegLen(width, height, quality) == 600 + (width * height * quality) \div 400

\* decodeImageToBitmap: "bitmap" for a DCTDecode stream, "null" for any other
\* filter; createImageBitmap rejects ("throw") when the stream is corrupt.
decodeImageToBitmap(obj) ==
  IF obj.filter = "DCTDecode"
  THEN (IF obj.corrupt THEN "throw" ELSE "bitmap")
  ELSE "null"

\* recompressAsJpeg: the dimensions and byte length of the re-encoded image.
recompressAsJpeg(obj, maxDimension, quality) ==
  LET d == resizeImage(obj.width, obj.height, maxDimension)
  IN  [width |-> d.width, height |-> d.height,
       len |-> JpegLen(d.width, d.height, quality)]

\* ------------------------------------------------------------------------
\* Documents and byte buffers
\*
\* A byte buffer is described by what it serializes: the pages (each with
\* the id of its XObject dictionary, 0 when it has none, and its size in
\* points), the XObject dictionaries (a dictionary is the sequence of the
\* object numbers its names refer to, in entry order), the indirect objects,
\* the bytes of the container around them, and the container size a
\* compacting save of the same document produces.
\* ------------------------------------------------------------------------

ImageObj(filter, len, width, height, corrupt) ==
  [subtype |-> "Image", filter |-> filter, len |-> len,
   width |-> width, height |-> height, corrupt |-> corrupt]

FormObj(len) ==
  [subtype |-> "Form", filter |-> "FlateDecode", len |-> len,
   width |-> 0, height |-> 0, corrupt |-> FALSE]

Page(xobject, widthPts, heightPts) ==
  [xobject |-> xobject, widthPts |-> widthPts, heightPts |-> heightPts]

\* inputBytes.length / outBytes.length
ByteLength(bytes) == bytes.overhead + SumLen(bytes.objs)

PdfBytes(pages, dicts, objs, overhead, compact) ==
  [parseable |-> TRUE, pages |-> pages, dicts |-> dicts, objs |-> objs,
   overhead |-> overhead, compact |-> compact]

GarbageBytes(len) ==
  [parseable |-> FALSE, pages |-> << >>, dicts |-> << >>, objs |-> << >>,
   overhead |-> len, compact |-> len]

\* The input files the model draws from.
\*  1: one JPEG shared by two pages through two dictionaries; the lightest
\*     rung re-encodes it larger than it is
\*  2: a large JPEG, a PNG, a form XObject and a corrupt JPEG
\*  3: text only; re-serializing grows the container
\*  4: text only; re-serializing compacts the container to exactly 0.1 MB
\*  5: two pages sharing one XObject dictionary with a JPEG used twice
\*  6: not a PDF at all, exactly 3 MB long
\*  7: one JPEG that the second rung re-encodes to exactly its own length
\*  8: one corrupt JPEG shared by two pages through two dictionaries
InputFiles ==
  << PdfBytes(<< Page(1, 612, 792), Page(2, 612, 792) >>,
              << <<1>>, <<1>> >>,
              << ImageObj("DCTDecode", 500000, 2000, 2000, FALSE) >>,
              20000, 20000),
     PdfBytes(<< Page(1, 612, 792), Page(2, 595, 842) >>,
              << <<1, 2, 3>>, <<4>> >>,
              << ImageObj("DCTDecode", 6000000, 4000, 3000, FALSE),
                 ImageObj("FlateDecode", 300000, 800, 600, FALSE),
                 FormObj(5000),
                 ImageObj("DCTDecode", 100000, 1200, 900, TRUE) >>,
              60000, 50000),
     PdfBytes(<< Page(0, 612, 792) >>, << >>, << >>, 400000, 410000),
     PdfBytes(<< Page(0, 612, 792) >>, << >>, << >>, 400000, 104857),
     PdfBytes(<< Page(1, 612, 792), Page(1, 612, 792) >>,
              << <<1, 1>> >>,
              << ImageObj("DCTDecode", 900000, 3000, 1500, FALSE) >>,
              30000, 25000),
     GarbageBytes(3145728),
     PdfBytes(<< Page(1, 612, 792) >>,
              << <<1>> >>,
              << ImageObj("DCTDecode", 480600, 1600, 1600, FALSE) >>,
              15000, 15000),
     PdfBytes(<< Page(1, 612, 792), Page(2, 612, 792) >>,
              << <<1>>, <<1>> >>,
              << ImageObj("DCTDecode", 200000, 1000, 1000, TRUE) >>,
              10000, 10000) >>

\* The targets (tenths of a megabyte) the model draws from.
TargetTenths == {-1, 0, 1, 2, 3, 10, 30, 100}

\* ------------------------------------------------------------------------
\* Document Image Rewriter (compressPdfSinglePass)
\*
\* The state of one pass: the document (dicts, objs), the replacement cache
\* (a function from the object numbers seen to the replacing object number,
\* 0 for null), the three counters, and three records kept for the analysis:
\* transcoded, the object numbers handed to the transcoder in order,
\* caught, the object numbers whose error the catch block swallowed, and
\* embedded, for every doc.embedJpg the object re-encoded and the new object.
\* ------------------------------------------------------------------------

PassStart(doc) ==
  [pages |-> doc.pages, dicts |-> doc.dicts, objs |-> doc.objs,
   cache |-> << >>, processed |-> 0, replaced |-> 0, skippedLarger |-> 0,
   transcoded |-> << >>, caught |-> << >>, embedded |-> << >>]

CachePutAlt(cache, key, value) == cache

\* replacementCache.set(cacheKey, value)
CachePut(cache, key, value) ==
  [k \in (DOMAIN cache) \cup {key} |-> IF k = key THEN value ELSE cache[k]]

\* leaf.setXObject(name, ref) on the page whose XObject dictionary is d
SetXObject(dicts, d, name, ref) ==
  [dicts EXCEPT ![d] = [@ EXCEPT ![name] = ref]]

NotSmallerAlt(jpegLen, contentsLen) == jpegLen > contentsLen

\* if (jpegBytes.length >= contents.length): keep the original image
NotSmaller(jpegLen, contentsLen) == jpegLen >= contentsLen

\* The body of the inner loop for entry `name` of dictionary d.
ProcessEntry(s, step, d, name) ==
  LET refObj == s.dicts[d][name]
      obj    == s.objs[refObj]
  IN
  IF refObj \in DOMAIN s.cache
  THEN (IF s.cache[refObj] # 0
        THEN [s EXCEPT !.dicts = SetXObject(s.dicts, d, name, s.cache[refObj])]
        ELSE s)
  ELSE IF obj.subtype # "Image" THEN s
  ELSE IF decodeImageToBitmap(obj) = "null" THEN s
  ELSE IF decodeImageToBitmap(obj) = "throw"
       THEN [s EXCEPT !.transcoded = Append(@, refObj),
                      !.caught = Append(@, refObj)]
  ELSE LET jpeg == recompressAsJpeg(obj, step.maxDimension, step.quality)
           newRef == Len(s.objs) + 1
       IN  IF NotSmaller(jpeg.len, obj.len)
           THEN [s EXCEPT !.skippedLarger = @ + 1,
                          !.cache = CachePut(@, refObj, 0),
                          !.transcoded = Append(@, refObj)]
           ELSE [s EXCEPT
                   !.objs = Append(@, ImageObj("DCTDecode", jpeg.len,
                                               jpeg.width, jpeg.height, FALSE)),
                   !.dicts = SetXObject(s.dicts, d, name, newRef),
                   !.cache = CachePut(@, refObj, newRef),
                   !.processed = @ + 1,
                   !.replaced = @ + 1,
                   !.transcoded = Append(@, refObj),
                   !.embedded = Append(@, [from |-> refObj, ref |-> newRef])]

RECURSIVE PassEntries(_, _, _, _)
\* for (const [name, refObj] of entries), from entry `name` on
PassEntries(s, step, d, name) ==
  IF name > Len(s.dicts[d]) THEN s
  ELSE PassEntries(ProcessEntry(s, step, d, name), step, d, name + 1)

RECURSIVE PassPages(_, _, _)
\* for (let i = 0; i < pages.length; i++), from page i (1-based) on
PassPages(s, step, i) ==
  IF i > Len(s.pages) THEN s
  ELSE IF s.pages[i].xobject = 0 THEN PassPages(s, step, i + 1)
  ELSE PassPages(PassEntries(s, step, s.pages[i].xobject, 1), step, i + 1)

CountsEventAlt(s, step) ==
  [kind |-> "counts", step |-> step.name, processed |-> s.processed,
   replaced |-> s.processed + s.skippedLarger,
   skippedLarger |-> s.skippedLarger]

\* The progress event compressPdfSinglePass emits after the page loop.
CountsEvent(s, step) ==
  [kind |-> "counts", step |-> step.name, processed |-> s.processed,
   replaced |-> s.replaced, skippedLarger |-> s.skippedLarger]

UsedRefs(s) ==
  UNION { { s.dicts[s.pages[i].xobject][k] :
              k \in DOMAIN s.dicts[s.pages[i].xobject] } :
          i \in { j \in DOMAIN s.pages : s.pages[j].xobject # 0 } }

\* An object number whose object is not written.
FreeObj ==
  [subtype |-> "Free", filter |-> "", len |-> 0,
   width |-> 0, height |-> 0, corrupt |-> FALSE]

\* doc.save({ useObjectStreams: true }): the container is compacted.  The
\* library decides whether the objects no page refers to any more are still
\* written; keepOrphans says which.
SaveDoc(s, compact, keepOrphans) ==
  [parseable |-> TRUE, pages |-> s.pages, dicts |-> s.dicts,
   objs |-> [n \in DOMAIN s.objs |->
               IF keepOrphans \/ n \in UsedRefs(s)
               THEN s.objs[n] ELSE FreeObj],
   overhead |-> compact, compact |-> compact]

\* compressPdfSinglePass(doc, step, onProgress): the pass state at its end.
compressPdfSinglePass(doc, step) == PassPages(PassStart(doc), step, 1)

\* ------------------------------------------------------------------------
\* Rasterize variant (rasterizeSinglePass)
\* ------------------------------------------------------------------------

\* canvas.width = Math.max(1, Math.floor(viewport.width)), the viewport being
\* the page scaled by step.scale (carried in tenths).
CanvasDim(pts, scale) == Max(1, (pts * scale) \div 10)

\* The JPEG of one rendered page.
RasterPageImage(page, step) ==
  ImageObj("DCTDecode",
           JpegLen(CanvasDim(page.widthPts, step.scale),
                   CanvasDim(page.heightPts, step.scale), step.quality),
           CanvasDim(page.widthPts, step.scale),
           CanvasDim(page.heightPts, step.scale), FALSE)

\* The progress events of the page loop, one per page.
RasterPageEvents(doc, step) ==
  [n \in 1..Len(doc.pages) |->
     [kind |-> "rasterPage", step |-> step.name, page |-> n,
      numPages |-> Len(doc.pages)]]

\* rasterizeSinglePass on a parsed source: a new document with one full-page
\* image per source page and the source page's size in points.  The container
\* of the new document takes 800 bytes and 400 more per page.
rasterizeSinglePass(doc, step) ==
  [parseable |-> TRUE,
   pages |-> [n \in 1..Len(doc.pages) |->
                Page(n, doc.pages[n].widthPts, doc.pages[n].heightPts)],
   dicts |-> [n \in 1..Len(doc.pages) |-> << n >>],
   objs  |-> [n \in 1..Len(doc.pages) |-> RasterPageImage(doc.pages[n], step)],
   overhead |-> 800 + 400 * Len(doc.pages),
   compact  |-> 800 + 400 * Len(doc.pages)]

\* ------------------------------------------------------------------------
\* State
\* ------------------------------------------------------------------------

VARIABLES
  entry,         \* the entry point invoked: "compressPdf",
                 \* "compressPdfRasterized" or "runCompressionInWorker"
  inputBytes,    \* the caller's input
  callerBytes,   \* the caller's own view of its input buffer
  targetTenths,  \* targetMb, in tenths of a megabyte
  keepOrphans,   \* whether the library's save writes unreferenced objects
  pc,            \* "idle", "posted", "trying", "returned"
  idx,           \* the loop variable of the driver (0-based)
  startIndex,    \* the estimated start index, -1 before the estimation
  bestSize,
  bestBytes,
  bestStepName,
  tried,         \* history: one record per rung attempt, in order
  faults,        \* number of rung attempts that failed on a parseable input
  emitted,       \* history: every event the driver passed to its onProgress
  cancelled,     \* worker.ts: let cancelled
  chan,          \* messages posted by the worker, not yet handled by the page
  delivered,     \* the events the caller's onProgress sink has received
  returned,      \* the CompressionResult the driver returned, or None
  result,        \* the CompressionResult the caller received, or None
  cancelSent,    \* whether the worker has been sent a 'cancel' message
  laterJob,      \* the 'compress' message the worker got while busy, or None
  mode,          \* useCompression: the CompressionMode selected
  phase,         \* useCompression.handleCompress: the await it is at
  serverRun,     \* what the compression server does with the request
  uiProgress,    \* useCompression: the progress list
  textRes,       \* handleCompress: res of the preserve-text path
  rasterRes,     \* handleCompress: the result of compressPdfRasterized
  uiResult,      \* useCompression: result (setResult)
  rasterCalls,   \* number of calls of compressPdfRasterized by the page
  env,           \* process.env: APP_PASSWORD and AUTH_COOKIE_VALUE
  jar,           \* the client's value of the auth cookie
  request,       \* the last request sent, or None
  response,      \* what the last request was answered with, or None
  lastChange,    \* the last operation that changed the client's cookie
  script,        \* compress-pdf.ps1: the script's variables and files
  resize,        \* resize specification: the arguments and the result
  sse,           \* server.ts: the response stream and the state of its reader
  estIn,         \* estimation specification: the pair of sizes
  estOut         \* estimation specification: the two start indices

vars == << entry, inputBytes, callerBytes, targetTenths, keepOrphans, pc, idx, startIndex,
           bestSize, bestBytes, bestStepName, tried, faults, emitted,
           cancelled, chan, delivered, returned, result, cancelSent, laterJob,
           mode, phase, serverRun, uiProgress, textRes, rasterRes, uiResult,
           rasterCalls, env, jar, request, response, lastChange, script, resize, sse,
           estIn, estOut >>

driverVars == << entry, inputBytes, callerBytes, targetTenths, keepOrphans, pc, idx,
                 startIndex, bestSize, bestBytes, bestStepName, tried, faults,
                 emitted, cancelled, chan, delivered, returned, result >>

estVars == << estIn, estOut >>

workerVars == << cancelSent, laterJob >>

uiVars == << mode, phase, serverRun, uiProgress, textRes, rasterRes, uiResult,
             rasterCalls >>

authVars == << env, jar, request, response, lastChange >>

\* What stands beside the web application: the desktop script, and the
\* functions checked on their own.
sideVars == << script, resize, sse >>

Entries == {"compressPdf", "compressPdfRasterized", "runCompressionInWorker"}

IsRaster == entry = "compressPdfRasterized"

Ladder == IF IsRaster THEN RASTER_LADDER ELSE COMPRESSION_LADDER

targetBytes == TargetBytesOf(targetTenths)

originalSize == ByteLength(inputBytes)

\* ------------------------------------------------------------------------
\* The pieces of the drivers
\* ------------------------------------------------------------------------

\* The start index each driver computes for its own ladder.
StartIndexOf(raster, origSize, target) ==
  IF raster THEN estimateStartingStepRaster(origSize, target)
  ELSE estimateStartingStep(origSize, target)

ShortCircuitTestAlt(origSize, target) == origSize < target

\* if (originalSize <= targetBytes)
ShortCircuitTest(origSize, target) == origSize <= target

ShortCircuitResult(bytes) ==
  [success |-> TRUE, outputBytes |-> bytes,
   originalSizeBytes |-> ByteLength(bytes),
   finalSizeBytes |-> ByteLength(bytes),
   targetReached |-> TRUE, stepUsed |-> "none (already under target)",
   errorMessage |-> None]

SucceededResultAlt(origSize, outBytes, stepName) ==
  [success |-> TRUE, outputBytes |-> outBytes,
   originalSizeBytes |-> origSize,
   finalSizeBytes |-> origSize,
   targetReached |-> TRUE, stepUsed |-> stepName,
   errorMessage |-> None]

SucceededResult(origSize, outBytes, stepName) ==
  [success |-> TRUE, outputBytes |-> outBytes,
   originalSizeBytes |-> origSize,
   finalSizeBytes |-> ByteLength(outBytes),
   targetReached |-> TRUE, stepUsed |-> stepName,
   errorMessage |-> None]

ExhaustedResultAlt(origSize, bBytes, bSize, bStepName) ==
  [success |-> FALSE, outputBytes |-> bBytes,
   originalSizeBytes |-> origSize,
   finalSizeBytes |-> bSize,
   targetReached |-> FALSE, stepUsed |-> bStepName,
   errorMessage |-> None]

ExhaustedResult(origSize, bBytes, bSize, bStepName) ==
  [success |-> TRUE, outputBytes |-> bBytes,
   originalSizeBytes |-> origSize,
   finalSizeBytes |-> bSize,
   targetReached |-> FALSE, stepUsed |-> bStepName,
   errorMessage |-> None]

RungSourceAlt(input, previous) == previous

\* The bytes a rung attempt parses: PDFDocument.load(inputBytes) and
\* rasterizeSinglePass(inputBytes, ...) take the caller's input; `previous`
\* is the output of the latest successful attempt (the input when none).
RungSource(input, previous) == input

\* One attempt of the text-preserving driver on `source`: the load, the
\* rewrite pass and the save.  saveFault: the save throws.
AttemptCompress(source, step, orphans, saveFault) ==
  IF ~source.parseable
  THEN [ok |-> FALSE, out |-> None, events |-> << >>, error |-> "load",
        caught |-> << >>, pass |-> None]
  ELSE LET s == compressPdfSinglePass(source, step)
       IN  IF saveFault
           THEN [ok |-> FALSE, out |-> None,
                 events |-> << CountsEvent(s, step) >>, error |-> "save",
                 caught |-> s.caught, pass |-> s]
           ELSE [ok |-> TRUE,
                 out |-> SaveDoc(s, source.compact, orphans),
                 events |-> << CountsEvent(s, step) >>, error |-> "",
                 caught |-> s.caught, pass |-> s]

\* One attempt of the rasterize driver on `source`.  renderFault: the canvas
\* of the first page cannot be created or exported.
AttemptRaster(source, step, renderFault) ==
  IF ~source.parseable
  THEN [ok |-> FALSE, out |-> None, events |-> << >>, error |-> "load",
        caught |-> << >>, pass |-> None]
  ELSE IF renderFault
  THEN [ok |-> FALSE, out |-> None, events |-> << >>, error |-> "render",
        caught |-> << >>, pass |-> None]
  ELSE [ok |-> TRUE, out |-> rasterizeSinglePass(source, step),
        events |-> RasterPageEvents(source, step), error |-> "",
        caught |-> << >>, pass |-> None]

Attempt(raster, source, step, orphans, fault) ==
  IF raster THEN AttemptRaster(source, step, fault)
  ELSE AttemptCompress(source, step, orphans, fault)

ImprovesAlt(size, best) == size > best

\* if (resultSize < bestSize)
Improves(size, best) == size < best

TargetMetAlt(size, target) == size < target

\* if (resultSize <= targetBytes)
TargetMet(size, target) == size <= target

\* The output of the latest successful attempt, the input when there is none.
RECURSIVE LastOutput(_, _)
LastOutput(input, hist) ==
  IF hist = << >> THEN input
  ELSE IF hist[Len(hist)].ok THEN hist[Len(hist)].out
  ELSE LastOutput(input, SubSeq(hist, 1, Len(hist) - 1))

TryingEvent(step) == [kind |-> "trying", step |-> step.name]

SizeEvent(size) == [kind |-> "size", size |-> size]

FailedEvent(error) == [kind |-> "failed", error |-> error]

RungEventsAlt(step, a, target) ==
  << TryingEvent(step) >> \o a.events \o
  (IF a.ok
   THEN << SizeEvent(ByteLength(a.out)) >> \o
        (IF TargetMet(ByteLength(a.out), target)
         THEN << [kind |-> "reached"] >> ELSE << >>)
   ELSE << >>)

\* The events of one loop iteration, in emission order.
RungEvents(step, a, target) ==
  << TryingEvent(step) >> \o a.events \o
  (IF a.ok
   THEN << SizeEvent(ByteLength(a.out)) >> \o
        (IF TargetMet(ByteLength(a.out), target)
         THEN << [kind |-> "reached"] >> ELSE << >>)
   ELSE << FailedEvent(a.error) >>)

NotReachedEvent(bSize, bStepName) ==
  [kind |-> "notReached", size |-> bSize, step |-> bStepName]

WorkerProgressAlt(isCancelled, queue, events) ==
  IF ~isCancelled THEN queue
  ELSE queue \o [n \in DOMAIN events |->
                   [type |-> "progress", progress |-> events[n]]]

\* worker.ts: the onProgress the worker passes to compressPdf.
WorkerProgress(isCancelled, queue, events) ==
  IF isCancelled THEN queue
  ELSE queue \o [n \in DOMAIN events |->
                   [type |-> "progress", progress |-> events[n]]]

TransferAlt(bytes) == bytes

\* runWorker.ts: what is left in the sender's Uint8Array once its buffer is
\* on the transfer list of postMessage: a detached buffer, of length 0.
Transfer(bytes) == GarbageBytes(0)

\* worker.ts: what follows `await compressPdf(...)`.
WorkerPostResult(isCancelled, queue, r) ==
  IF isCancelled THEN queue
  ELSE Append(queue, [type |-> "result", result |-> r])

\* Passing events to onProgress, and returning r when r is a result.
Deliver(events, r) ==
  /\ emitted' = emitted \o events
  /\ returned' = r
  /\ IF entry = "runCompressionInWorker"
     THEN /\ chan' = (IF r = None
                      THEN WorkerProgress(cancelled, chan, events)
                      ELSE WorkerPostResult(cancelled,
                             WorkerProgress(cancelled, chan, events), r))
          /\ UNCHANGED << delivered, result >>
     ELSE /\ delivered' = delivered \o events
          /\ result' = r
          /\ UNCHANGED chan

\* ------------------------------------------------------------------------
\* Initial states
\* ------------------------------------------------------------------------

NoEstimate == [compress |-> -1, raster |-> -1]

DriverIdle ==
  /\ pc = "idle"
  /\ callerBytes = inputBytes
  /\ idx = 0
  /\ startIndex = -1
  /\ bestSize = 0
  /\ bestBytes = None
  /\ bestStepName = ""
  /\ tried = << >>
  /\ faults = 0
  /\ emitted = << >>
  /\ cancelled = FALSE
  /\ chan = << >>
  /\ delivered = << >>
  /\ returned = None
  /\ result = None

WorkerIdle ==
  /\ cancelSent = FALSE
  /\ laterJob = None

UiIdle ==
  /\ serverRun = None
  /\ uiProgress = << >>
  /\ textRes = None
  /\ rasterRes = None
  /\ uiResult = None
  /\ rasterCalls = 0

\* An optional string: `undefined`, or a string as the sequence of its
\* characters.
Undefined == [defined |-> FALSE, chars |-> << >>]

Str(chars) == [defined |-> TRUE, chars |-> chars]

\* No web server: nothing configured, no request sent.
NoAuth ==
  /\ env = [APP_PASSWORD |-> Undefined, AUTH_COOKIE_VALUE |-> Undefined]
  /\ jar = Undefined
  /\ request = None
  /\ response = None
  /\ lastChange = [op |-> "none", password |-> Undefined]

\* The desktop script is not run, no function is applied on its own.
NoSide ==
  /\ script = None
  /\ resize = None
  /\ sse = None

\* No page: the entry points are called on their own.
NoPage ==
  /\ mode = "preserveText"
  /\ phase = "off"
  /\ UiIdle

Init ==
  /\ entry \in Entries
  /\ WorkerIdle
  /\ NoSide
  /\ NoPage
  /\ NoAuth
  /\ inputBytes \in { InputFiles[f] : f \in DOMAIN InputFiles }
  /\ targetTenths \in TargetTenths
  /\ keepOrphans \in BOOLEAN
  /\ DriverIdle
  /\ estIn = [originalSize |-> 0, targetSize |-> 0]
  /\ estOut = NoEstimate

\* ------------------------------------------------------------------------
\* The drivers: compressPdf and compressPdfRasterized
\* ------------------------------------------------------------------------

OriginalEvent ==
  [kind |-> "original", size |-> originalSize, targetTenths |-> targetTenths]

\* From the entry of the driver to its first await: the short-circuit, or
\* the estimation and the initialisation of the best-so-far.
DriverStart ==
  IF ShortCircuitTest(originalSize, targetBytes)
  THEN /\ Deliver(<< OriginalEvent >> \o
                  (IF IsRaster THEN << >> ELSE << [kind |-> "under"] >>),
                  ShortCircuitResult(inputBytes))
       /\ pc' = "returned"
       /\ UNCHANGED << idx, startIndex, bestSize, bestBytes, bestStepName >>
  ELSE LET start == StartIndexOf(IsRaster, originalSize, targetBytes)
       IN  /\ Deliver(<< OriginalEvent >> \o
                      (IF IsRaster THEN << >>
                       ELSE << [kind |-> "ratio",
                                step |-> Ladder[start + 1].name] >>),
                      None)
           /\ startIndex' = start
           /\ idx' = start
           /\ bestSize' = originalSize
           /\ bestBytes' = inputBytes
           /\ bestStepName' = "none"
           /\ pc' = "trying"

\* compressPdf / compressPdfRasterized called by the caller itself.
Start ==
  /\ pc = "idle"
  /\ entry # "runCompressionInWorker"
  /\ DriverStart
  /\ UNCHANGED << entry, inputBytes, callerBytes, targetTenths, keepOrphans,
                  tried, faults, cancelled >>
  /\ UNCHANGED estVars
  /\ UNCHANGED sideVars
  /\ UNCHANGED authVars
  /\ UNCHANGED uiVars
  /\ UNCHANGED workerVars

\* runCompressionInWorker: the page creates the worker and posts the
\* 'compress' message.
PostCompress ==
  /\ pc = "idle"
  /\ entry = "runCompressionInWorker"
  /\ pc' = "posted"
  /\ callerBytes' = Transfer(callerBytes)
  /\ UNCHANGED << entry, inputBytes, targetTenths, keepOrphans, idx,
                  startIndex, bestSize, bestBytes, bestStepName, tried, faults,
                  emitted, cancelled, chan, delivered, returned, result >>
  /\ UNCHANGED estVars
  /\ UNCHANGED sideVars
  /\ UNCHANGED authVars
  /\ UNCHANGED uiVars
  /\ UNCHANGED workerVars

\* worker.ts self.onmessage for the 'compress' message, up to the first
\* await of compressPdf.
WorkerOnCompress ==
  /\ pc = "posted"
  /\ cancelled' = FALSE
  /\ DriverStart
  /\ UNCHANGED << entry, inputBytes, callerBytes, targetTenths, keepOrphans,
                  tried, faults >>
  /\ UNCHANGED estVars
  /\ UNCHANGED sideVars
  /\ UNCHANGED authVars
  /\ UNCHANGED uiVars
  /\ UNCHANGED workerVars

NextRungAlt(i) == i

\* for (let i = startIndex; i < LADDER.length; i++): the step to the next rung
NextRung(i) == i + 1

\* What the body of the loop does with the outcome `a` of the attempt of
\* `step` on `source`: the bookkeeping of the best-so-far, the progress
\* events, and the return on success or after the last rung.
RungStep(step, source, a, fault) ==
  LET size   == IF a.ok THEN ByteLength(a.out) ELSE -1
      better == a.ok /\ Improves(size, bestSize)
      met    == a.ok /\ TargetMet(size, targetBytes)
      nSize  == IF better THEN size ELSE bestSize
      nBytes == IF better THEN a.out ELSE bestBytes
      nName  == IF better THEN step.name ELSE bestStepName
      events == RungEvents(step, a, targetBytes)
  IN  /\ tried' = Append(tried,
             [idx |-> idx, step |-> step.name, source |-> source,
              ok |-> a.ok, out |-> a.out, size |-> size,
              bestBefore |-> [size |-> bestSize, bytes |-> bestBytes,
                              step |-> bestStepName],
              bestAfter |-> [size |-> nSize, bytes |-> nBytes,
                             step |-> nName],
              caught |-> a.caught, pass |-> a.pass,
              events |-> events])
      /\ faults' = IF fault THEN faults + 1 ELSE faults
      /\ bestSize' = nSize
      /\ bestBytes' = nBytes
      /\ bestStepName' = nName
      /\ IF met
         THEN /\ Deliver(events,
                         SucceededResult(originalSize, a.out, step.name))
              /\ idx' = idx
              /\ pc' = "returned"
         ELSE IF idx + 1 = Len(Ladder)
         THEN /\ Deliver(events \o << NotReachedEvent(nSize, nName) >>,
                         ExhaustedResult(originalSize, nBytes, nSize,
                                         nName))
              /\ idx' = NextRung(idx)
              /\ pc' = "returned"
         ELSE /\ Deliver(events, None)
              /\ idx' = NextRung(idx)
              /\ pc' = "trying"

\* One iteration of the ladder loop, and what follows it synchronously: the
\* return on success, or the return after the loop when it was the last rung.
TryRung ==
  /\ pc = "trying"
  /\ idx < Len(Ladder)
  /\ \E fault \in BOOLEAN :
       /\ fault => (inputBytes.parseable /\ faults < MaxRungFaults)
       /\ LET step   == Ladder[idx + 1]
              source == RungSource(inputBytes, LastOutput(inputBytes, tried))
          IN  RungStep(step, source,
                       Attempt(IsRaster, source, step, keepOrphans, fault),
                       fault)
  /\ UNCHANGED << entry, inputBytes, callerBytes, targetTenths, keepOrphans,
                  startIndex, cancelled >>
  /\ UNCHANGED estVars
  /\ UNCHANGED sideVars
  /\ UNCHANGED authVars
  /\ UNCHANGED uiVars
  /\ UNCHANGED workerVars

\* runWorker.ts worker.onmessage: the page handles the oldest message of the
\* worker; a 'result' resolves the promise and terminates the worker.
MainOnMessage ==
  /\ entry = "runCompressionInWorker"
  /\ result = None
  /\ chan # << >>
  /\ chan' = Tail(chan)
  /\ IF Head(chan).type = "progress"
     THEN /\ delivered' = Append(delivered, Head(chan).progress)
          /\ UNCHANGED result
     ELSE /\ result' = Head(chan).result
          /\ UNCHANGED delivered
  /\ UNCHANGED << entry, inputBytes, callerBytes, targetTenths, keepOrphans,
                  pc, idx, startIndex, bestSize, bestBytes, bestStepName,
                  tried, faults, emitted, cancelled, returned >>
  /\ UNCHANGED estVars
  /\ UNCHANGED sideVars
  /\ UNCHANGED authVars
  /\ UNCHANGED uiVars
  /\ UNCHANGED workerVars

Next ==
  \/ Start
  \/ PostCompress
  \/ WorkerOnCompress
  \/ TryRung
  \/ MainOnMessage

Spec == Init /\ [][Next]_vars

\* ------------------------------------------------------------------------
\* The ladder loop over any outcome of a rung attempt
\*
\* A rung attempt is taken to settle, with an error or with an output of
\* some size; which one is left open.
\* ------------------------------------------------------------------------

\* The output sizes drawn for an attempt: at and just over the target, just
\* under, at and just over the original.
LoopSizes ==
  { n \in { targetBytes, targetBytes + 1, originalSize - 1, originalSize,
            originalSize + 1 } : n >= 0 }

AttemptOutcomes ==
  { [ok |-> FALSE, out |-> None, events |-> << >>, error |-> "attempt",
     caught |-> << >>, pass |-> None] }
  \cup { [ok |-> TRUE, out |-> GarbageBytes(n), events |-> << >>,
          error |-> "", caught |-> << >>, pass |-> None] : n \in LoopSizes }

InitLoop ==
  /\ Init
  /\ inputBytes = InputFiles[1]
  /\ keepOrphans = FALSE

LoopRung ==
  /\ pc = "trying"
  /\ idx < Len(Ladder)
  /\ \E a \in AttemptOutcomes :
       RungStep(Ladder[idx + 1], inputBytes, a, FALSE)
  /\ UNCHANGED << entry, inputBytes, callerBytes, targetTenths, keepOrphans,
                  startIndex, cancelled >>
  /\ UNCHANGED estVars
  /\ UNCHANGED sideVars
  /\ UNCHANGED authVars
  /\ UNCHANGED uiVars
  /\ UNCHANGED workerVars

NextLoop ==
  \/ Start
  \/ PostCompress
  \/ WorkerOnCompress
  \/ LoopRung
  \/ MainOnMessage

\* Every await of the drivers settles and the event loop runs every handler
\* that is due: a step that stays possible is eventually taken.
FairLoop == InitLoop /\ [][NextLoop]_vars /\ WF_vars(NextLoop)

\* ------------------------------------------------------------------------
\* The worker as a component: 'compress' and 'cancel' messages of any client
\* ------------------------------------------------------------------------

InitWorker ==
  /\ entry = "runCompressionInWorker"
  /\ inputBytes \in { InputFiles[f] : f \in DOMAIN InputFiles }
  /\ targetTenths \in TargetTenths
  /\ keepOrphans \in BOOLEAN
  /\ DriverIdle
  /\ WorkerIdle
  /\ NoSide
  /\ NoPage
  /\ NoAuth
  /\ estIn = [originalSize |-> 0, targetSize |-> 0]
  /\ estOut = NoEstimate

\* The later jobs the model draws from: two files, one target of 10 MB.
LaterFiles == { InputFiles[1], InputFiles[3] }

LaterTargetTenths == { 100 }

\* worker.ts self.onmessage for a 'cancel' message that arrives while the
\* job is at one of its awaits.
WorkerOnCancel ==
  /\ pc = "trying"
  /\ ~cancelSent
  /\ cancelled' = TRUE
  /\ cancelSent' = TRUE
  /\ UNCHANGED << entry, inputBytes, callerBytes, targetTenths, keepOrphans,
                  pc, idx, startIndex, bestSize, bestBytes, bestStepName,
                  tried, faults, emitted, chan, delivered, returned, result,
                  laterJob >>
  /\ UNCHANGED estVars
  /\ UNCHANGED sideVars
  /\ UNCHANGED authVars
  /\ UNCHANGED uiVars

\* worker.ts self.onmessage for a second 'compress' message that arrives
\* while the first job is at one of its awaits.  The second job is one that
\* compressPdf answers at once (it is already under its target), so the
\* whole handler runs before any other message is handled.
WorkerOnCompressLater ==
  /\ pc = "trying"
  /\ laterJob = None
  /\ \E b \in LaterFiles, t \in LaterTargetTenths :
       /\ ShortCircuitTest(ByteLength(b), TargetBytesOf(t))
       /\ laterJob' = [bytes |-> b, targetTenths |-> t]
       /\ cancelled' = FALSE
       /\ chan' = WorkerPostResult(FALSE,
                     WorkerProgress(FALSE, chan,
                       << [kind |-> "original", size |-> ByteLength(b),
                           targetTenths |-> t],
                          [kind |-> "under"] >>),
                     ShortCircuitResult(b))
  /\ UNCHANGED << entry, inputBytes, callerBytes, targetTenths, keepOrphans,
                  pc, idx, startIndex, bestSize, bestBytes, bestStepName,
                  tried, faults, emitted, delivered, returned, result,
                  cancelSent >>
  /\ UNCHANGED estVars
  /\ UNCHANGED sideVars
  /\ UNCHANGED authVars
  /\ UNCHANGED uiVars

NextWorker ==
  \/ PostCompress
  \/ WorkerOnCompress
  \/ TryRung
  \/ WorkerOnCancel
  \/ WorkerOnCompressLater

SpecWorker == InitWorker /\ [][NextWorker]_vars

\* ------------------------------------------------------------------------
\* The compression server's client: server.ts compressOnServer
\* ------------------------------------------------------------------------

\* A `null` or empty string of the stream is "": the code only tests such
\* values for falsiness.
ProgressLine(message) == [type |-> "progress", message |-> message]

DoneLine(success, downloadUrl, error) ==
  [type |-> "done", success |-> success, originalSize |-> 3000000,
   finalSize |-> 900000, targetReached |-> success, stepUsed |-> "ebook",
   downloadUrl |-> downloadUrl, error |-> error]

\* One request as the server answers it: whether fetch resolves, res.ok,
\* whether res.body is there, the data lines of the event stream, whether
\* the download's response is ok, and the bytes it carries.
ServerRun(fetchOk, ok, body, lines, dlOk) ==
  [fetchOk |-> fetchOk, ok |-> ok, body |-> body, lines |-> lines,
   dlOk |-> dlOk, dlBytes |-> GarbageBytes(900000)]

ServerRuns ==
  { ServerRun(FALSE, FALSE, FALSE, << >>, FALSE),
    ServerRun(TRUE, FALSE, TRUE, << >>, FALSE),
    ServerRun(TRUE, TRUE, FALSE, << >>, FALSE),
    ServerRun(TRUE, TRUE, TRUE, << ProgressLine("Trying ebook") >>, FALSE),
    ServerRun(TRUE, TRUE, TRUE,
              << DoneLine(FALSE, "", "Ghostscript not found") >>, FALSE),
    ServerRun(TRUE, TRUE, TRUE,
              << ProgressLine("Trying ebook"), DoneLine(FALSE, "", "") >>,
              FALSE),
    ServerRun(TRUE, TRUE, TRUE, << DoneLine(TRUE, "", "") >>, FALSE),
    ServerRun(TRUE, TRUE, TRUE,
              << ProgressLine("Trying ebook"),
                 DoneLine(TRUE, "/download/1", "") >>, FALSE),
    ServerRun(TRUE, TRUE, TRUE,
              << ProgressLine("Trying ebook"),
                 DoneLine(TRUE, "/download/1", "") >>, TRUE) }

\* The onProgress calls of the stream loop, in order.
StreamEvents(lines) ==
  LET ps == SelectSeq(lines, LAMBDA l : l.type = "progress")
  IN  [n \in DOMAIN ps |-> [kind |-> "server", message |-> ps[n].message]]

\* donePayload after the stream loop: the last 'done' line, or null.
DonePayloadOf(lines) ==
  LET ds == SelectSeq(lines, LAMBDA l : l.type = "done")
  IN  IF ds = << >> THEN None ELSE ds[Len(ds)]

\* CompressionResult.errorMessage when it is set.
ErrorMessage(text) == [text |-> text]

Threw(events, message) ==
  [threw |-> TRUE, events |-> events, message |-> message, res |-> None]

Resolved(events, res) ==
  [threw |-> FALSE, events |-> events, message |-> "", res |-> res]

compressOnServerAlt(run) ==
  LET up == << [kind |-> "uploading"] >>
  IN  IF ~run.fetchOk THEN Threw(up, "Failed to fetch")
      ELSE IF ~run.ok \/ ~run.body THEN Threw(up, "Server error")
      ELSE
        LET ev == up \o StreamEvents(run.lines)
            d  == DonePayloadOf(run.lines)
        IN  IF d = None \/ ~d.success \/ d.downloadUrl = ""
            THEN Resolved(ev,
                   [success |-> FALSE, outputBytes |-> None,
                    originalSizeBytes |-> 0,
                    finalSizeBytes |-> 0, targetReached |-> FALSE,
                    stepUsed |-> "none",
                    errorMessage |->
                      ErrorMessage("Server compression failed")])
            ELSE IF ~run.dlOk
            THEN Threw(ev \o << [kind |-> "downloading"] >>,
                       "Failed to download compressed file")
            ELSE Resolved(ev \o << [kind |-> "downloading"] >>,
                   [success |-> TRUE, outputBytes |-> run.dlBytes,
                    originalSizeBytes |-> d.originalSize,
                    finalSizeBytes |-> d.finalSize,
                    targetReached |-> d.targetReached,
                    stepUsed |-> d.stepUsed, errorMessage |-> None])

\* server.ts compressOnServer: the progress events it passes on, and the
\* result it resolves with or the error it throws.
compressOnServer(run) ==
  LET up == << [kind |-> "uploading"] >>
  IN  IF ~run.fetchOk THEN Threw(up, "Failed to fetch")
      ELSE IF ~run.ok \/ ~run.body THEN Threw(up, "Server error")
      ELSE
        LET ev == up \o StreamEvents(run.lines)
            d  == DonePayloadOf(run.lines)
        IN  IF d = None
            THEN Threw(ev, "No result received from compression server")
            ELSE IF ~d.success \/ d.downloadUrl = ""
            THEN Resolved(ev,
                   [success |-> FALSE, outputBytes |-> None,
                    originalSizeBytes |-> d.originalSize,
                    finalSizeBytes |-> 0, targetReached |-> FALSE,
                    stepUsed |-> "none",
                    errorMessage |->
                      IF d.error = ""
                      THEN ErrorMessage("Server compression failed")
                      ELSE ErrorMessage(d.error)])
            ELSE IF ~run.dlOk
            THEN Threw(ev \o << [kind |-> "downloading"] >>,
                       "Failed to download compressed file")
            ELSE Resolved(ev \o << [kind |-> "downloading"] >>,
                   [success |-> TRUE, outputBytes |-> run.dlBytes,
                    originalSizeBytes |-> d.originalSize,
                    finalSizeBytes |-> d.finalSize,
                    targetReached |-> d.targetReached,
                    stepUsed |-> d.stepUsed, errorMessage |-> None])

\* ------------------------------------------------------------------------
\* The page: useCompression.handleCompress
\* ------------------------------------------------------------------------

Modes == {"server", "preserveText", "highCompression"}

InitUI ==
  /\ mode \in Modes
  /\ phase = "ready"
  /\ UiIdle
  /\ entry = "runCompressionInWorker"
  /\ inputBytes \in { InputFiles[f] : f \in DOMAIN InputFiles }
  /\ targetTenths \in TargetTenths
  /\ keepOrphans \in BOOLEAN
  /\ pc = "off"
  /\ callerBytes = inputBytes
  /\ idx = 0
  /\ startIndex = -1
  /\ bestSize = 0
  /\ bestBytes = None
  /\ bestStepName = ""
  /\ tried = << >>
  /\ faults = 0
  /\ emitted = << >>
  /\ cancelled = FALSE
  /\ chan = << >>
  /\ delivered = << >>
  /\ returned = None
  /\ result = None
  /\ WorkerIdle
  /\ NoSide
  /\ NoAuth
  /\ estIn = [originalSize |-> 0, targetSize |-> 0]
  /\ estOut = NoEstimate

\* `new Uint8Array(await file.arrayBuffer())` and the call of the entry
\* point e on these fresh bytes, with the page's onProgress.
CallEntry(e) ==
  /\ entry' = e
  /\ pc' = "idle"
  /\ callerBytes' = inputBytes
  /\ idx' = 0
  /\ startIndex' = -1
  /\ bestSize' = 0
  /\ bestBytes' = None
  /\ bestStepName' = ""
  /\ tried' = << >>
  /\ faults' = 0
  /\ emitted' = << >>
  /\ cancelled' = FALSE
  /\ chan' = << >>
  /\ delivered' = << >>
  /\ returned' = None
  /\ result' = None
  /\ UNCHANGED << inputBytes, targetTenths, keepOrphans >>

ServerFallbackEvent(message) ==
  [kind |-> "serverFallback", message |-> message]

RasterFallbackEvent == [kind |-> "rasterFallback"]

NeedsRasterFallbackAlt(res) == res.finalSizeBytes > res.originalSizeBytes

\* handleCompress: the test of the automatic raster fallback.
NeedsRasterFallback(res) == res.finalSizeBytes >= res.originalSizeBytes

\* handleCompress: whether the raster result replaces res.
RasterReplaces(rRes, res) == rRes.finalSizeBytes < res.finalSizeBytes

\* handleCompress from its entry to its first await.
HandleCompress ==
  /\ phase = "ready"
  /\ IF mode = "server"
     THEN /\ \E run \in ServerRuns : serverRun' = run
          /\ phase' = "server"
          /\ uiProgress' = << [kind |-> "uploading"] >>
          /\ UNCHANGED driverVars
          /\ UNCHANGED rasterCalls
     ELSE IF mode = "highCompression"
     THEN /\ phase' = "raster"
          /\ CallEntry("compressPdfRasterized")
          /\ rasterCalls' = rasterCalls + 1
          /\ uiProgress' = << >>
          /\ UNCHANGED serverRun
     ELSE /\ phase' = "text"
          /\ CallEntry("runCompressionInWorker")
          /\ uiProgress' = << >>
          /\ UNCHANGED << serverRun, rasterCalls >>
  /\ UNCHANGED << mode, textRes, rasterRes, uiResult >>
  /\ UNCHANGED workerVars
  /\ UNCHANGED estVars
  /\ UNCHANGED sideVars
  /\ UNCHANGED authVars

\* handleCompress after `await compressOnServer(...)`: the result, or the
\* catch with its fallback to the worker.
AfterServer ==
  /\ phase = "server"
  /\ LET o == compressOnServer(serverRun)
     IN  IF o.threw
         THEN /\ uiProgress' = o.events \o << ServerFallbackEvent(o.message) >>
              /\ CallEntry("runCompressionInWorker")
              /\ phase' = "serverFallback"
              /\ UNCHANGED uiResult
         ELSE /\ uiProgress' = o.events
              /\ uiResult' = o.res
              /\ phase' = "done"
              /\ UNCHANGED driverVars
  /\ UNCHANGED << mode, serverRun, textRes, rasterRes, rasterCalls >>
  /\ UNCHANGED workerVars
  /\ UNCHANGED estVars
  /\ UNCHANGED sideVars
  /\ UNCHANGED authVars

\* handleCompress after `await runCompressionInWorker(...)`.
AfterWorker ==
  /\ phase \in {"serverFallback", "text"}
  /\ result # None
  /\ IF phase = "text" /\ NeedsRasterFallback(result)
     THEN /\ textRes' = result
          /\ uiProgress' = uiProgress \o delivered \o << RasterFallbackEvent >>
          /\ CallEntry("compressPdfRasterized")
          /\ rasterCalls' = rasterCalls + 1
          /\ phase' = "rasterFallback"
          /\ UNCHANGED uiResult
     ELSE /\ textRes' = (IF phase = "text" THEN result ELSE textRes)
          /\ uiProgress' = uiProgress \o delivered
          /\ uiResult' = result
          /\ phase' = "done"
          /\ UNCHANGED driverVars
          /\ UNCHANGED rasterCalls
  /\ UNCHANGED << mode, serverRun, rasterRes >>
  /\ UNCHANGED workerVars
  /\ UNCHANGED estVars
  /\ UNCHANGED sideVars
  /\ UNCHANGED authVars

\* handleCompress after `await compressPdfRasterized(...)`.
AfterRaster ==
  /\ phase \in {"raster", "rasterFallback"}
  /\ result # None
  /\ rasterRes' = result
  /\ uiProgress' = uiProgress \o delivered
  /\ uiResult' = (IF phase = "rasterFallback" /\ ~RasterReplaces(result, textRes)
                  THEN textRes ELSE result)
  /\ phase' = "done"
  /\ UNCHANGED driverVars
  /\ UNCHANGED << mode, serverRun, textRes, rasterCalls >>
  /\ UNCHANGED workerVars
  /\ UNCHANGED estVars
  /\ UNCHANGED sideVars
  /\ UNCHANGED authVars

NextUI ==
  \/ HandleCompress
  \/ AfterServer
  \/ AfterWorker
  \/ AfterRaster
  \/ Start
  \/ PostCompress
  \/ WorkerOnCompress
  \/ TryRung
  \/ MainOnMessage

SpecUI == InitUI /\ [][NextUI]_vars

\* ------------------------------------------------------------------------
\* The password gate: the middleware and lib/auth
\* ------------------------------------------------------------------------

\* The values the model draws environment variables and cookies from.
StrValues ==
  { Undefined, Str(<< >>), Str(<< "k" >>), Str(<< "k", "7" >>) }

\* The paths the model requests, and those among them that config.matcher
\* excludes (_next/static, _next/image, favicon.ico, api, image files).
Paths ==
  { "/", "/login", "/about", "/api/auth", "/favicon.ico", "/logo.png",
    "/_next/static/app.js" }

MatcherExcluded ==
  { "/api/auth", "/favicon.ico", "/logo.png", "/_next/static/app.js" }

Matched(pathname) == pathname \notin MatcherExcluded

\* lib/auth isPasswordAuthConfigured
isPasswordAuthConfigured(e) ==
  /\ e.APP_PASSWORD.defined
  /\ Len(e.APP_PASSWORD.chars) > 0
  /\ e.AUTH_COOKIE_VALUE.defined
  /\ Len(e.AUTH_COOKIE_VALUE.chars) > 0

isAuthenticatedAlt(e, cookieValue) ==
  IF ~cookieValue.defined \/ cookieValue.chars = << >> THEN FALSE
  ELSE TRUE

\* lib/auth isAuthenticated
isAuthenticated(e, cookieValue) ==
  IF ~cookieValue.defined \/ cookieValue.chars = << >> THEN FALSE
  ELSE e.AUTH_COOKIE_VALUE = cookieValue

NextResponse == [kind |-> "next", location |-> ""]

Redirect(location) == [kind |-> "redirect", location |-> location]

middlewareAlt(e, req) ==
  IF ~isPasswordAuthConfigured(e) THEN NextResponse
  ELSE LET isLogin == req.pathname = "/login"
       IN  IF isAuthenticated(e, req.cookie)
           THEN (IF isLogin THEN Redirect("/") ELSE NextResponse)
           ELSE Redirect("/login")

\* middleware.ts middleware
middleware(e, req) ==
  IF ~isPasswordAuthConfigured(e) THEN NextResponse
  ELSE LET isLogin == req.pathname = "/login"
       IN  IF isAuthenticated(e, req.cookie)
           THEN (IF isLogin THEN Redirect("/") ELSE NextResponse)
           ELSE IF ~isLogin THEN Redirect("/login")
           ELSE NextResponse

InitAuth ==
  /\ env \in [APP_PASSWORD : StrValues, AUTH_COOKIE_VALUE : StrValues]
  /\ jar = Undefined
  /\ request = None
  /\ response = None
  /\ lastChange = [op |-> "none", password |-> Undefined]
  /\ entry = "compressPdf"
  /\ inputBytes = InputFiles[1]
  /\ targetTenths = 0
  /\ keepOrphans = FALSE
  /\ DriverIdle
  /\ WorkerIdle
  /\ NoSide
  /\ NoPage
  /\ estIn = [originalSize |-> 0, targetSize |-> 0]
  /\ estOut = NoEstimate

\* The client sets its auth cookie to a value of its choice.
SetCookie ==
  /\ \E v \in StrValues : v # jar /\ jar' = v
  /\ lastChange' = [op |-> "set", password |-> Undefined]
  /\ UNCHANGED << env, request, response >>
  /\ UNCHANGED driverVars
  /\ UNCHANGED workerVars
  /\ UNCHANGED uiVars
  /\ UNCHANGED estVars
  /\ UNCHANGED sideVars

\* The client requests a path with its cookie; the middleware answers the
\* request when config.matcher matches the path, and the request passes on
\* otherwise.
SendRequest ==
  /\ \E pathname \in Paths :
       LET req == [pathname |-> pathname, cookie |-> jar, hops |-> 0]
       IN  /\ request' = req
           /\ response' = (IF Matched(pathname) THEN middleware(env, req)
                           ELSE NextResponse)
  /\ UNCHANGED << env, jar, lastChange >>
  /\ UNCHANGED driverVars
  /\ UNCHANGED workerVars
  /\ UNCHANGED uiVars
  /\ UNCHANGED estVars
  /\ UNCHANGED sideVars

NextAuth ==
  \/ SetCookie
  \/ SendRequest

SpecAuth == InitAuth /\ [][NextAuth]_vars

\* The client follows the redirect it received, at once and so with the
\* cookie of the redirected request; hops counts the redirects followed.
FollowRedirect ==
  /\ response # None
  /\ response.kind = "redirect"
  /\ jar = request.cookie
  /\ request.hops < MaxHops
  /\ LET req == [pathname |-> response.location, cookie |-> jar,
                 hops |-> request.hops + 1]
     IN  /\ request' = req
         /\ response' = (IF Matched(req.pathname) THEN middleware(env, req)
                         ELSE NextResponse)
  /\ UNCHANGED << env, jar, lastChange >>
  /\ UNCHANGED driverVars
  /\ UNCHANGED workerVars
  /\ UNCHANGED uiVars
  /\ UNCHANGED estVars
  /\ UNCHANGED sideVars

NextRedirect ==
  \/ SetCookie
  \/ SendRequest
  \/ FollowRedirect

SpecRedirect == InitAuth /\ [][NextRedirect]_vars

\* ------------------------------------------------------------------------
\* The login session: POST api/auth and POST api/auth/logout
\* ------------------------------------------------------------------------

JsonResponse(route, status, setCookie) ==
  [kind |-> "json", route |-> route, status |-> status,
   setCookie |-> setCookie]

\* api/auth: `typeof body.password === "string" ? body.password : ""`
PasswordOf(bodyPassword) ==
  IF bodyPassword.defined THEN bodyPassword ELSE Str(<< >>)

loginPOSTAlt(e, bodyPassword) ==
  IF ~isPasswordAuthConfigured(e)
  THEN JsonResponse("login", 503, Undefined)
  ELSE JsonResponse("login", 200, e.AUTH_COOKIE_VALUE)

\* api/auth POST: the response, and the cookie value it sets (Undefined when
\* it sets none).
loginPOST(e, bodyPassword) ==
  IF ~isPasswordAuthConfigured(e)
  THEN JsonResponse("login", 503, Undefined)
  ELSE IF PasswordOf(bodyPassword) # e.APP_PASSWORD
  THEN JsonResponse("login", 401, Undefined)
  ELSE JsonResponse("login", 200, e.AUTH_COOKIE_VALUE)

\* api/auth/logout POST: sets the cookie to "" with maxAge 0.
logoutPOST == JsonResponse("logout", 200, Str(<< >>))

\* The client posts a password to api/auth and stores the cookie of the
\* response, if it has one.
LoginPost ==
  /\ \E bodyPassword \in StrValues :
       LET res == loginPOST(env, bodyPassword)
       IN  /\ request' = [pathname |-> "/api/auth", cookie |-> jar,
                          password |-> bodyPassword]
           /\ response' = res
           /\ IF res.setCookie.defined
              THEN /\ jar' = res.setCookie
                   /\ lastChange' = [op |-> "login", password |-> bodyPassword]
              ELSE UNCHANGED << jar, lastChange >>
  /\ UNCHANGED env
  /\ UNCHANGED driverVars
  /\ UNCHANGED workerVars
  /\ UNCHANGED uiVars
  /\ UNCHANGED estVars
  /\ UNCHANGED sideVars

\* The client posts to api/auth/logout; a cookie set with maxAge 0 is
\* removed from the client.
LogoutPost ==
  /\ request' = [pathname |-> "/api/auth/logout", cookie |-> jar,
                 password |-> Undefined]
  /\ response' = logoutPOST
  /\ jar' = Undefined
  /\ lastChange' = [op |-> "logout", password |-> Undefined]
  /\ UNCHANGED env
  /\ UNCHANGED driverVars
  /\ UNCHANGED workerVars
  /\ UNCHANGED uiVars
  /\ UNCHANGED estVars
  /\ UNCHANGED sideVars

NextLogin ==
  \/ LoginPost
  \/ LogoutPost
  \/ SendRequest

SpecLogin == InitAuth /\ [][NextLogin]_vars

\* ------------------------------------------------------------------------
\* The desktop script: compress-pdf.ps1
\* ------------------------------------------------------------------------

\* [long]::MaxValue, as the largest integer of the model: greater than the
\* size of every file.
LongMaxValue == 2147483647

\* 1MB
OneMB == 1048576

Profiles == {"llm", "balanced", "aggressive"}

ProfileLadder(profile) ==
  CASE profile = "llm"        -> << 200, 175, 150, 125, 110, 100 >>
    [] profile = "balanced"   -> << 250, 225, 200, 175, 150 >>
    [] profile = "aggressive" -> << 150, 125, 100, 85, 72 >>

\* $dpiLadder after the filter by MinDpi.
DpiLadderOf(profile, minDpi) ==
  LET kept == SelectSeq(ProfileLadder(profile), LAMBDA d : d >= minDpi)
  IN  IF Len(kept) = 0 THEN << minDpi >> ELSE kept

\* The values of -MinDpi the model draws from.
MinDpis == {100, 150, 300}

\* What one DPI can come to: Ghostscript fails, qpdf fails, or qpdf writes a
\* file of one of these sizes (10 MB, the 30 MB target exactly, one byte
\* more, 40 MB).
DpiOutcomes ==
  { [gsSuccess |-> FALSE, qpdfSuccess |-> FALSE, resultSize |-> 0],
    [gsSuccess |-> TRUE, qpdfSuccess |-> FALSE, resultSize |-> 0] }
  \cup { [gsSuccess |-> TRUE, qpdfSuccess |-> TRUE, resultSize |-> n] :
           n \in {10 * OneMB, 30 * OneMB, 30 * OneMB + 1, 40 * OneMB} }

InitPs1 ==
  /\ \E profile \in Profiles, minDpi \in MinDpis :
       script = [pc |-> "loop", dpiLadder |-> DpiLadderOf(profile, minDpi),
             targetBytes |-> 30 * OneMB, i |-> 1, bestResult |-> None,
             bestSize |-> LongMaxValue, bestDpi |-> 0, outputPdf |-> None,
             exitCode |-> -1, tried |-> << >>]
  /\ resize = None
  /\ sse = None
  /\ entry = "compressPdf"
  /\ inputBytes = InputFiles[1]
  /\ targetTenths = 0
  /\ keepOrphans = FALSE
  /\ DriverIdle
  /\ WorkerIdle
  /\ NoPage
  /\ NoAuth
  /\ estIn = [originalSize |-> 0, targetSize |-> 0]
  /\ estOut = NoEstimate

IsBetterAlt(resultSize, best) == TRUE

\* Track best result: `$resultSize -lt $bestSize`
IsBetter(resultSize, best) == resultSize < best

\* One iteration of the DPI loop: the Ghostscript pass, the qpdf pass, the
\* tracking of the best result and the target check.
PsTryDpi ==
  /\ script # None
  /\ script.pc = "loop"
  /\ script.i <= Len(script.dpiLadder)
  /\ \E o \in DpiOutcomes :
       LET dpi       == script.dpiLadder[script.i]
           completed == o.gsSuccess /\ o.qpdfSuccess
           better    == completed /\ IsBetter(o.resultSize, script.bestSize)
           reached   == completed /\ o.resultSize <= script.targetBytes
       IN  script' = [script EXCEPT
                    !.tried = Append(@, [dpi |-> dpi, completed |-> completed,
                                         resultSize |-> o.resultSize]),
                    !.bestSize = IF better THEN o.resultSize ELSE @,
                    !.bestDpi = IF better THEN dpi ELSE @,
                    !.bestResult = IF better
                                   THEN [size |-> o.resultSize, dpi |-> dpi]
                                   ELSE @,
                    !.i = IF reached THEN Len(script.dpiLadder) + 1 ELSE @ + 1]
  /\ UNCHANGED << resize, sse >>
  /\ UNCHANGED driverVars
  /\ UNCHANGED workerVars
  /\ UNCHANGED uiVars
  /\ UNCHANGED authVars
  /\ UNCHANGED estVars

\* After the loop: copy the best result to the output path, or fail.
PsFinish ==
  /\ script # None
  /\ script.pc = "loop"
  /\ script.i > Len(script.dpiLadder)
  /\ script' = (IF script.bestResult # None
            THEN [script EXCEPT !.outputPdf = script.bestResult, !.exitCode = 0,
                            !.pc = "done"]
            ELSE [script EXCEPT !.exitCode = 1, !.pc = "failed"])
  /\ UNCHANGED << resize, sse >>
  /\ UNCHANGED driverVars
  /\ UNCHANGED workerVars
  /\ UNCHANGED uiVars
  /\ UNCHANGED authVars
  /\ UNCHANGED estVars

NextPs1 ==
  \/ PsTryDpi
  \/ PsFinish

SpecPs1 == InitPs1 /\ [][NextPs1]_vars

\* ------------------------------------------------------------------------
\* resizeImage on its own
\* ------------------------------------------------------------------------

\* Bitmaps and caps of real size: the images of the input files, a thin
\* strip and a bitmap one pixel over a cap, against the caps of the ladder.
RealBitmaps ==
  { << 4000, 3000 >>, << 3000, 1500 >>, << 2000, 2000 >>, << 1500, 3000 >>,
    << 1601, 1600 >>, << 10000, 1 >>, << 600, 601 >> }

ResizeArgs ==
  [width : 1..MaxImageDim, height : 1..MaxImageDim,
   maxDimension : 1..MaxImageDim, out : {None}]
  \cup { [width |-> b[1], height |-> b[2],
          maxDimension |-> COMPRESSION_LADDER[n].maxDimension, out |-> None] :
         b \in RealBitmaps, n \in DOMAIN COMPRESSION_LADDER }

InitResize ==
  /\ resize \in ResizeArgs
  /\ script = None
  /\ sse = None
  /\ entry = "compressPdf"
  /\ inputBytes = InputFiles[1]
  /\ targetTenths = 0
  /\ keepOrphans = FALSE
  /\ DriverIdle
  /\ WorkerIdle
  /\ NoPage
  /\ NoAuth
  /\ estIn = [originalSize |-> 0, targetSize |-> 0]
  /\ estOut = NoEstimate

ResizeImage ==
  /\ resize # None
  /\ resize.out = None
  /\ resize' = [resize EXCEPT
                  !.out = resizeImage(resize.width, resize.height,
                                      resize.maxDimension)]
  /\ UNCHANGED << script, sse >>
  /\ UNCHANGED driverVars
  /\ UNCHANGED workerVars
  /\ UNCHANGED uiVars
  /\ UNCHANGED authVars
  /\ UNCHANGED estVars

NextResize == ResizeImage

SpecResize == InitResize /\ [][NextResize]_vars

\* ------------------------------------------------------------------------
\* The reader of the server's event stream (server.ts compressOnServer)
\*
\* Text is a sequence of characters.  The JSON texts the server writes are
\* short words; JSON.parse accepts exactly these words and throws on any
\* other text, a truncated word included.
\* ------------------------------------------------------------------------

NewLine == "\n"

DataPrefix == << "d", "a", "t", "a", ":", " " >>

ProgressA == << "{", "p", "a", "}" >>
ProgressB == << "{", "p", "b", "}" >>
DoneOk    == << "{", "D", "1", "}" >>
DoneFail  == << "{", "D", "0", "}" >>

\* JSON.parse(text): the value, or the fact that it throws.
JSONparse(text) ==
  IF text = ProgressA
  THEN [threw |-> FALSE, type |-> "progress", message |-> "a", success |-> FALSE]
  ELSE IF text = ProgressB
  THEN [threw |-> FALSE, type |-> "progress", message |-> "b", success |-> FALSE]
  ELSE IF text = DoneOk
  THEN [threw |-> FALSE, type |-> "done", message |-> "", success |-> TRUE]
  ELSE IF text = DoneFail
  THEN [threw |-> FALSE, type |-> "done", message |-> "", success |-> FALSE]
  ELSE [threw |-> TRUE, type |-> "", message |-> "", success |-> FALSE]

\* The lines a response is made of: two progress lines, two results, a line
\* whose JSON text is cut short, the empty line that separates events, and a
\* line with the field name but without the space after the colon.
SampleLines ==
  { DataPrefix \o ProgressA, DataPrefix \o ProgressB, DataPrefix \o DoneOk,
    DataPrefix \o DoneFail, DataPrefix \o << "{", "p" >>, << >>,
    << "d", "a", "t", "a", ":" >> \o ProgressA }

RECURSIVE Joined(_, _)
\* The lines joined by line feeds, with a final line feed when `closed`.
Joined(lines, closed) ==
  IF lines = << >> THEN << >>
  ELSE IF Len(lines) = 1
       THEN Head(lines) \o (IF closed THEN << NewLine >> ELSE << >>)
       ELSE Head(lines) \o << NewLine >> \o Joined(Tail(lines), closed)

RECURSIVE Split(_, _)
\* text.split("\n"), with `piece` the characters since the last line feed
Split(text, piece) ==
  IF text = << >> THEN << piece >>
  ELSE IF Head(text) = NewLine THEN << piece >> \o Split(Tail(text), << >>)
  ELSE Split(Tail(text), Append(piece, Head(text)))

\* line.startsWith("data: ")
StartsWithData(line) ==
  /\ Len(line) >= Len(DataPrefix)
  /\ SubSeq(line, 1, Len(DataPrefix)) = DataPrefix

NoPayload == [threw |-> TRUE, type |-> "", message |-> "", success |-> FALSE]

\* The body of `for (const line of lines)` on the reader's state r.
HandleLine(r, line) ==
  IF ~StartsWithData(line) THEN r
  ELSE LET data == JSONparse(SubSeq(line, Len(DataPrefix) + 1, Len(line)))
       IN  IF data.threw THEN r
           ELSE IF data.type = "progress"
           THEN [r EXCEPT !.forwarded = Append(@, data.message)]
           ELSE IF data.type = "done"
           THEN [r EXCEPT !.donePayload = data]
           ELSE r

RECURSIVE HandleLines(_, _)
HandleLines(r, lines) ==
  IF lines = << >> THEN r
  ELSE HandleLines(HandleLine(r, Head(lines)), Tail(lines))

FeedAlt(r, chunk) ==
  LET lines == Split(r.buffer \o chunk, << >>)
  IN  [HandleLines(r, SubSeq(lines, 1, Len(lines) - 1)) EXCEPT
         !.buffer = << >>]

\* One turn of the read loop with the decoded chunk: buffer += chunk, split,
\* keep the last piece as the buffer, handle the lines before it.
Feed(r, chunk) ==
  LET lines == Split(r.buffer \o chunk, << >>)
  IN  [HandleLines(r, SubSeq(lines, 1, Len(lines) - 1)) EXCEPT
         !.buffer = lines[Len(lines)]]

\* The reader before the first read.
ReaderStart ==
  [buffer |-> << >>, forwarded |-> << >>, donePayload |-> NoPayload]

\* What compressOnServer does after the loop: it throws when no result was
\* seen, and goes on with the result otherwise.
OutcomeOf(r) ==
  IF r.donePayload = NoPayload
  THEN [threw |-> TRUE,
        message |-> "No result received from compression server",
        payload |-> NoPayload]
  ELSE [threw |-> FALSE, message |-> "", payload |-> r.donePayload]

LineSeqs == UNION { [1..n -> SampleLines] : n \in 0..MaxLines }

InitSse ==
  /\ \E ls \in LineSeqs : \E closed \in BOOLEAN :
       sse = [lines |-> ls, closed |-> closed, stream |-> Joined(ls, closed),
              pos |-> 0, reader |-> ReaderStart, pc |-> "reading",
              cut |-> FALSE]
  /\ script = None
  /\ resize = None
  /\ entry = "compressPdf"
  /\ inputBytes = InputFiles[1]
  /\ targetTenths = 0
  /\ keepOrphans = FALSE
  /\ DriverIdle
  /\ WorkerIdle
  /\ NoPage
  /\ NoAuth
  /\ estIn = [originalSize |-> 0, targetSize |-> 0]
  /\ estOut = NoEstimate

\* reader.read() resolves with the next chunk of the response, of any
\* length; cut records that some chunk ended inside a line.
SseRead ==
  /\ sse # None
  /\ sse.pc = "reading"
  /\ sse.pos < Len(sse.stream)
  /\ \E k \in 1..(Len(sse.stream) - sse.pos) :
       LET chunk == SubSeq(sse.stream, sse.pos + 1, sse.pos + k)
       IN  sse' = [sse EXCEPT
                     !.reader = Feed(@, chunk),
                     !.pos = @ + k,
                     !.cut = @ \/ (/\ sse.pos + k < Len(sse.stream)
                                   /\ chunk[k] # NewLine)]
  /\ UNCHANGED << script, resize >>
  /\ UNCHANGED driverVars
  /\ UNCHANGED workerVars
  /\ UNCHANGED uiVars
  /\ UNCHANGED authVars
  /\ UNCHANGED estVars

\* reader.read() resolves with done: the loop is left.
SseDone ==
  /\ sse # None
  /\ sse.pc = "reading"
  /\ sse.pos = Len(sse.stream)
  /\ sse' = [sse EXCEPT !.pc = "done"]
  /\ UNCHANGED << script, resize >>
  /\ UNCHANGED driverVars
  /\ UNCHANGED workerVars
  /\ UNCHANGED uiVars
  /\ UNCHANGED authVars
  /\ UNCHANGED estVars

NextSse ==
  \/ SseRead
  \/ SseDone

SpecSse == InitSse /\ [][NextSse]_vars

\* ------------------------------------------------------------------------
\* The estimation functions on their own
\* ------------------------------------------------------------------------

\* The literal scenario of the specification: 50,000,000 bytes against 30 MB.
ScenarioSizes == [originalSize |-> 50000000, targetSize |-> TargetBytesOf(300)]

InitEst ==
  /\ estIn \in [originalSize : 0..MaxEstSize, targetSize : -2..MaxEstSize]
                 \cup {ScenarioSizes}
  /\ estOut = NoEstimate
  /\ entry = "compressPdf"
  /\ inputBytes = InputFiles[1]
  /\ targetTenths = 0
  /\ keepOrphans = FALSE
  /\ DriverIdle
  /\ WorkerIdle
  /\ NoSide
  /\ NoPage
  /\ NoAuth

EstimateCompress ==
  /\ estOut.compress = -1
  /\ estOut' = [estOut EXCEPT !.compress =
                  estimateStartingStep(estIn.originalSize, estIn.targetSize)]
  /\ UNCHANGED estIn
  /\ UNCHANGED driverVars
  /\ UNCHANGED workerVars
  /\ UNCHANGED uiVars
  /\ UNCHANGED authVars
  /\ UNCHANGED sideVars

EstimateRaster ==
  /\ estOut.raster = -1
  /\ estOut' = [estOut EXCEPT !.raster =
                  estimateStartingStepRaster(estIn.originalSize,
                                             estIn.targetSize)]
  /\ UNCHANGED estIn
  /\ UNCHANGED driverVars
  /\ UNCHANGED workerVars
  /\ UNCHANGED uiVars
  /\ UNCHANGED authVars
  /\ UNCHANGED sideVars

NextEst ==
  \/ EstimateCompress
  \/ EstimateRaster

SpecEst == InitEst /\ [][NextEst]_vars

\* ------------------------------------------------------------------------
\* Properties
\* ------------------------------------------------------------------------

\* The driver has run past its entry.
Started == pc \in {"trying", "returned"}

\* Attempt i produced an output that satisfies the target.
MetAt(i) == tried[i].ok /\ tried[i].size <= targetBytes

\* Some attempt produced an output strictly smaller than the original.
AnyImproved == \E i \in DOMAIN tried : tried[i].ok /\ tried[i].size < originalSize

\* C1 - Short-circuit: when the input size is <= targetBytes, compressPdf and
\* compressPdfRasterized return at once with outputBytes the input bytes,
\* finalSizeBytes = originalSizeBytes = the input size, targetReached = TRUE,
\* stepUsed = "none (already under target)", and no rung is ever attempted.
C1_ShortCircuit ==
  originalSize <= targetBytes =>
    /\ tried = << >>
    /\ Started =>
         /\ returned # None
         /\ returned.success
         /\ returned.outputBytes = inputBytes
         /\ returned.originalSizeBytes = originalSize
         /\ returned.finalSizeBytes = returned.originalSizeBytes
         /\ returned.targetReached
         /\ returned.stepUsed = "none (already under target)"

\* An input exactly as large as the target was returned by the short-circuit.
C1_Witness ==
  /\ originalSize = targetBytes
  /\ returned # None
  /\ returned.stepUsed = "none (already under target)"

\* C2 - Early stop: the rungs are attempted one after the other with the
\* ladder index growing by one from the estimated start; no rung is attempted
\* after one whose output size is <= targetBytes; and a result with
\* targetReached = TRUE outside the short-circuit carries the name and the
\* output of the first attempted rung whose output satisfies the target.
C2_EarlyStop ==
  /\ \A i \in DOMAIN tried : tried[i].idx = startIndex + i - 1
  /\ \A i \in DOMAIN tried : i < Len(tried) => ~MetAt(i)
  /\ (returned # None /\ returned.targetReached /\ ~(originalSize <= targetBytes))
       => /\ tried # << >>
          /\ MetAt(Len(tried))
          /\ returned.stepUsed = tried[Len(tried)].step
          /\ returned.stepUsed = Ladder[startIndex + Len(tried)].name
          /\ returned.outputBytes = tried[Len(tried)].out

\* A rung after the start rung reached the target, with an output exactly as
\* large as the target or smaller.
C2_Witness ==
  /\ returned # None
  /\ returned.targetReached
  /\ Len(tried) >= 2
  /\ ~MetAt(1)

\* C3 as originally stated - whenever a tried rung was strictly smaller than
\* the original, finalSizeBytes <= originalSizeBytes; and whenever no tried
\* rung was strictly smaller, the result is the input with targetReached =
\* FALSE and stepUsed = "none".
C3_Original ==
  returned # None =>
    /\ AnyImproved => returned.finalSizeBytes <= returned.originalSizeBytes
    /\ ~AnyImproved =>
         /\ returned.outputBytes = inputBytes
         /\ returned.finalSizeBytes = returned.originalSizeBytes
         /\ ~returned.targetReached
         /\ returned.stepUsed = "none"

\* C3 - Never worse than original: whenever a tried rung was strictly smaller
\* than the original, finalSizeBytes <= originalSizeBytes; and when at least
\* one rung was tried (the result is not the short-circuit's) and none was
\* strictly smaller, the result is the input, finalSizeBytes =
\* originalSizeBytes, targetReached = FALSE and stepUsed = "none".
C3_NeverWorse ==
  returned # None =>
    /\ returned.originalSizeBytes = originalSize
    /\ AnyImproved => returned.finalSizeBytes <= returned.originalSizeBytes
    /\ (tried # << >> /\ ~AnyImproved) =>
         /\ returned.outputBytes = inputBytes
         /\ returned.finalSizeBytes = returned.originalSizeBytes
         /\ ~returned.targetReached
         /\ returned.stepUsed = "none"

\* Every rung produced an output, none smaller than the original.
C3_Witness ==
  /\ returned # None
  /\ tried # << >>
  /\ ~AnyImproved
  /\ \E i \in DOMAIN tried : tried[i].ok /\ tried[i].size > originalSize
  /\ returned.outputBytes = inputBytes

\* Every rung from the estimated start to the end of the ladder was tried and
\* none satisfied the target.
LadderExhausted ==
  /\ returned # None
  /\ startIndex >= 0
  /\ Len(tried) = Len(Ladder) - startIndex
  /\ \A i \in DOMAIN tried : ~MetAt(i)

\* C4 - Exhausted result: success = TRUE, targetReached = FALSE, and the
\* output, size and step are those of a smallest output over all tried rungs
\* when that is strictly smaller than the original, else the input, the
\* original size and "none".
C4_Exhausted ==
  LadderExhausted =>
    /\ returned.success
    /\ ~returned.targetReached
    /\ IF AnyImproved
       THEN \E k \in DOMAIN tried :
              /\ tried[k].ok
              /\ \A j \in DOMAIN tried : tried[j].ok => tried[k].size <= tried[j].size
              /\ returned.finalSizeBytes = tried[k].size
              /\ returned.outputBytes = tried[k].out
              /\ returned.stepUsed = tried[k].step
       ELSE /\ returned.outputBytes = inputBytes
            /\ returned.finalSizeBytes = originalSize
            /\ returned.stepUsed = "none"

\* The ladder was exhausted over at least three rungs and the best output is
\* that of a rung which improved on the original.
C4_Witness ==
  /\ LadderExhausted
  /\ Len(tried) >= 3
  /\ AnyImproved
  /\ returned.stepUsed # "none"

\* C5 - Starting rung of compressPdf: for originalSize > targetSize > 0 the
\* start index is 0 below ratio 1.5, 1 in [1.5, 2), 2 in [2, 3), 3 in [3, 4),
\* 4 in [4, 5) and 5 from 5 on; 50,000,000 bytes against 30 MB start at 1.
C5_StartingRung ==
  LET o == estIn.originalSize
      t == estIn.targetSize
      ix == estOut.compress
  IN  (ix # -1 /\ o > t /\ t > 0) =>
        /\ (2 * o < 3 * t) => ix = 0
        /\ (3 * t <= 2 * o /\ o < 2 * t) => ix = 1
        /\ (2 * t <= o /\ o < 3 * t) => ix = 2
        /\ (3 * t <= o /\ o < 4 * t) => ix = 3
        /\ (4 * t <= o /\ o < 5 * t) => ix = 4
        /\ (5 * t <= o) => ix = 5
        /\ (o = 50000000 /\ t = 31457280) =>
             (ix = 1 /\ COMPRESSION_LADDER[ix + 1].name = "moderate")

\* The literal scenario was estimated.
C5_Witness ==
  /\ estIn.originalSize = 50000000
  /\ estIn.targetSize = 31457280
  /\ estOut.compress = 1

\* Number of events of the given kind in a sequence of events.
CountKind(events, kind) ==
  Cardinality({ n \in DOMAIN events : events[n].kind = kind })

\* C6 - Total failure: when the input cannot be parsed at all, so that the
\* parse fails on every rung, the CompressionResult has success = FALSE, an
\* errorMessage, and no output bytes.
C6_TotalFailure ==
  (returned # None /\ ~inputBytes.parseable /\ tried # << >>) =>
    /\ ~returned.success
    /\ returned.errorMessage # None
    /\ returned.outputBytes = None

\* C7 - Per-rung failure: a rung attempt that throws leaves bestSize,
\* bestBytes and bestStepName unchanged, emits exactly one progress event
\* naming the failure, and is followed by the next rung or, when it was the
\* last rung, by the Exhausted result; the invocation is not aborted.
C7_PerRungFailure ==
  \A i \in DOMAIN tried :
    ~tried[i].ok =>
      /\ tried[i].bestAfter = tried[i].bestBefore
      /\ CountKind(tried[i].events, "failed") = 1
      /\ tried[i].events[Len(tried[i].events)].kind = "failed"
      /\ IF tried[i].idx + 1 < Len(Ladder)
         THEN \/ (i = Len(tried) /\ pc = "trying" /\ idx = tried[i].idx + 1)
              \/ (i < Len(tried) /\ tried[i + 1].idx = tried[i].idx + 1)
         ELSE /\ returned # None
              /\ returned.success
              /\ ~returned.targetReached
              /\ returned.finalSizeBytes = tried[i].bestBefore.size

\* A save failed on a parseable input after an earlier rung had improved the
\* best-so-far, and a later rung was tried.
C7_Witness ==
  \E i \in DOMAIN tried :
    /\ ~tried[i].ok
    /\ inputBytes.parseable
    /\ tried[i].bestBefore.step # "none"
    /\ i < Len(tried)

\* C8 - Per-image failure audit trail: every error caught for a single image
\* in a rewrite pass produces at least one progress event naming the failure.
C8_ImageFailureLogged ==
  \A i \in DOMAIN tried :
    Len(tried[i].caught) <= CountKind(tried[i].events, "imageFailed")

\* C9 - Progress ordering: the caller's sink receives the events in emission
\* order, none skipped, and has received every one of them when the
\* CompressionResult is delivered, on a direct call and through the worker.
C9_ProgressOrder ==
  /\ IsPrefix(delivered, emitted)
  /\ result # None => (delivered = emitted /\ result = returned)

\* The promise of runCompressionInWorker resolved after a run over several
\* rungs whose events all reached the sink.
C9_Witness ==
  /\ entry = "runCompressionInWorker"
  /\ result # None
  /\ Len(tried) >= 2
  /\ Len(delivered) >= 8

\* The output a fresh attempt of the rung with index i produces for the input.
FreshOutput(i) ==
  Attempt(IsRaster, inputBytes, Ladder[i + 1], keepOrphans, FALSE).out

\* C10 - Rung independence: every rung attempt parses the caller's input
\* bytes, and the output of a rung is the output that rung produces for the
\* input on its own, whichever rungs were tried before it.
C10_RungIndependence ==
  \A i \in DOMAIN tried :
    /\ tried[i].source = inputBytes
    /\ tried[i].ok => tried[i].out = FreshOutput(tried[i].idx)

\* Two rungs in a row produced outputs, the first of which replaced an image.
C10_Witness ==
  /\ Len(tried) >= 2
  /\ tried[1].ok
  /\ tried[2].ok
  /\ tried[1].out.objs # inputBytes.objs
  /\ tried[2].out # tried[1].out

\* The (dictionary, name) pairs of the input document that refer to object r.
RefsTo(doc, r) ==
  UNION { { <<d, k>> : k \in { n \in DOMAIN doc.dicts[d] : doc.dicts[d][n] = r } } :
          d \in DOMAIN doc.dicts }

\* The pages of the document whose XObject dictionary refers to object r.
PagesUsing(doc, r) ==
  { i \in DOMAIN doc.pages :
      /\ doc.pages[i].xobject # 0
      /\ \E dn \in RefsTo(doc, r) : dn[1] = doc.pages[i].xobject }

\* The rung attempts whose rewrite pass ran.
PassesRun == { i \in DOMAIN tried : tried[i].pass # None }

\* The objects of the input that a pass re-encoded and replaced.
ReplacedIn(ps) ==
  { r \in DOMAIN inputBytes.objs :
      \E n \in DOMAIN ps.embedded : ps.embedded[n].from = r }

\* The objects a pass embedded as the re-encoding of object r.
EmbeddedFor(ps, r) ==
  { ps.embedded[n].ref : n \in { m \in DOMAIN ps.embedded : ps.embedded[m].from = r } }

\* C11 - De-duplication: after a rewrite pass that replaced an image of the
\* input, exactly one re-encoded object has been embedded for that image and
\* every reference to it, on each of the pages that use it, points to that
\* one object.
C11_Dedup ==
  \A i \in PassesRun :
    \A r \in ReplacedIn(tried[i].pass) :
      LET ps == tried[i].pass
      IN  /\ Cardinality({ n \in DOMAIN ps.embedded : ps.embedded[n].from = r }) = 1
          /\ \A dn \in RefsTo(inputBytes, r) :
               ps.dicts[dn[1]][dn[2]] \in EmbeddedFor(ps, r)
          /\ \A dn \in RefsTo(inputBytes, r) :
               ps.objs[ps.dicts[dn[1]][dn[2]]].subtype = "Image"

\* A pass replaced an image that two pages refer to.
C11_Witness ==
  \E i \in PassesRun :
    \E r \in ReplacedIn(tried[i].pass) :
      /\ Cardinality(PagesUsing(inputBytes, r)) = 2
      /\ Cardinality(RefsTo(inputBytes, r)) = 2
      /\ Len(tried[i].pass.objs) = Len(inputBytes.objs) + 1

\* The objects of the input that a pass found not smaller when re-encoded.
SkippedIn(ps) ==
  { r \in DOMAIN ps.cache : r \in DOMAIN inputBytes.objs /\ ps.cache[r] = 0 }

\* C12 - Never substitute a larger image: a reference is repointed only to a
\* re-encoded object strictly shorter than the image it replaces; an image
\* whose re-encoding is as long or longer is counted as skipped-larger and
\* every reference to it still points to the original object after the pass.
C12_NeverLarger ==
  \A i \in PassesRun :
    LET ps == tried[i].pass
        step == COMPRESSION_LADDER[tried[i].idx + 1]
    IN  /\ \A n \in DOMAIN ps.embedded :
             ps.objs[ps.embedded[n].ref].len < ps.objs[ps.embedded[n].from].len
        /\ \A d \in DOMAIN ps.dicts : \A k \in DOMAIN ps.dicts[d] :
             ps.dicts[d][k] # inputBytes.dicts[d][k] =>
               ps.objs[ps.dicts[d][k]].len < inputBytes.objs[inputBytes.dicts[d][k]].len
        /\ \A r \in SkippedIn(ps) :
             /\ \A dn \in RefsTo(inputBytes, r) : ps.dicts[dn[1]][dn[2]] = r
             /\ recompressAsJpeg(inputBytes.objs[r], step.maxDimension,
                                 step.quality).len >= inputBytes.objs[r].len
        /\ ps.skippedLarger >= Cardinality(SkippedIn(ps))
        /\ \A r \in DOMAIN inputBytes.objs :
             (/\ inputBytes.objs[r].subtype = "Image"
              /\ decodeImageToBitmap(inputBytes.objs[r]) = "bitmap"
              /\ RefsTo(inputBytes, r) # {}
              /\ recompressAsJpeg(inputBytes.objs[r], step.maxDimension,
                                  step.quality).len >= inputBytes.objs[r].len)
             => r \in SkippedIn(ps)

\* A pass re-encoded an image to exactly its own length and left it alone.
C12_Witness ==
  \E i \in PassesRun : \E r \in SkippedIn(tried[i].pass) :
    /\ recompressAsJpeg(inputBytes.objs[r],
                        COMPRESSION_LADDER[tried[i].idx + 1].maxDimension,
                        COMPRESSION_LADDER[tried[i].idx + 1].quality).len
         = inputBytes.objs[r].len
    /\ tried[i].pass.skippedLarger = 1
    /\ tried[i].pass.dicts = inputBytes.dicts

\* C13 - Monotonic aggressiveness: along COMPRESSION_LADDER neither
\* maxDimension nor quality ever grows from one step to the next, and along
\* RASTER_LADDER neither scale nor quality does; so the rungs an invocation
\* tries one after the other never get milder.
C13_Monotonic ==
  /\ \A i \in 1..(Len(COMPRESSION_LADDER) - 1) :
       /\ COMPRESSION_LADDER[i].maxDimension >= COMPRESSION_LADDER[i + 1].maxDimension
       /\ COMPRESSION_LADDER[i].quality >= COMPRESSION_LADDER[i + 1].quality
  /\ \A i \in 1..(Len(RASTER_LADDER) - 1) :
       /\ RASTER_LADDER[i].scale >= RASTER_LADDER[i + 1].scale
       /\ RASTER_LADDER[i].quality >= RASTER_LADDER[i + 1].quality
  /\ \A i \in DOMAIN tried : i < Len(tried) =>
       Ladder[tried[i].idx + 1].quality >= Ladder[tried[i + 1].idx + 1].quality

\* The raster ladder was walked from its first rung to its last one.
C13_Witness ==
  /\ Len(tried) >= 4
  /\ tried[Len(tried)].idx + 1 = Len(Ladder)
  /\ IsRaster

\* C14 (as stated) - compressPdfRasterized picks its starting rung from the
\* breakpoint table of compressPdf (ratio < 1.5 -> 0, < 2 -> 1, < 3 -> 2,
\* < 4 -> 3, < 5 -> 4, else last), clamped to the last rung of RASTER_LADDER.
C14_Original ==
  (estOut.raster # -1 /\ estOut.compress # -1) =>
    estOut.raster = Min(estOut.compress, Len(RASTER_LADDER) - 1)

\* C14 - compressPdfRasterized picks its starting rung from a breakpoint
\* table of its own: for originalSize > targetSize > 0 the start index is 0
\* below ratio 2, 1 in [2, 4), 2 in [4, 8) and 3, the last rung, from 8 on;
\* it is never past the last rung of RASTER_LADDER.
C14_RasterTable ==
  LET o == estIn.originalSize
      t == estIn.targetSize
      ix == estOut.raster
  IN  (ix # -1) =>
        /\ ix \in 0..(Len(RASTER_LADDER) - 1)
        /\ (o > t /\ t > 0) =>
             /\ (o < 2 * t) => ix = 0
             /\ (2 * t <= o /\ o < 4 * t) => ix = 1
             /\ (4 * t <= o /\ o < 8 * t) => ix = 2
             /\ (8 * t <= o) => ix = 3

\* Ratio 1.5 was estimated by both drivers: compressPdf starts at rung 1,
\* compressPdfRasterized at rung 0.
C14_Witness ==
  /\ estIn.originalSize = 3
  /\ estIn.targetSize = 2
  /\ estOut.compress = 1
  /\ estOut.raster = 0

\* C15 (as stated) - Whichever entry point ran the invocation, once it has
\* returned the caller's input buffer is what it was: same length, same
\* content.
C15_Original ==
  (result # None) => callerBytes = inputBytes

\* C15 - compressPdf and compressPdfRasterized called directly leave the
\* caller's input buffer as it was; runCompressionInWorker transfers the
\* buffer to the worker, so from the posting of the 'compress' message on
\* the caller's view of it is detached and has length 0.
C15_InputFrame ==
  /\ (entry # "runCompressionInWorker") => callerBytes = inputBytes
  /\ (entry = "runCompressionInWorker" /\ pc # "idle") =>
       /\ ByteLength(callerBytes) = 0
       /\ callerBytes # inputBytes

\* The worker path has returned its result to a caller whose buffer is
\* detached.
C15_Witness ==
  /\ entry = "runCompressionInWorker"
  /\ result # None
  /\ result.outputBytes # None
  /\ ByteLength(callerBytes) = 0
  /\ ByteLength(inputBytes) > 0

\* C16 - Cancellation at rung boundaries: once the worker has been sent a
\* 'cancel' message for the job in flight, the driver starts no further
\* rung (a rung already started is one step here and always completes).
C16_CancelAtRungBoundary ==
  [][cancelSent => tried' = tried]_vars

\* C17 - No shared mutable state across invocations: a job that was
\* cancelled never has its result posted, whatever other 'compress' message
\* the worker handles meanwhile.
C17_CancelledNeverPosted ==
  (cancelSent /\ returned # None) =>
    \A n \in DOMAIN chan :
      chan[n].type = "result" => chan[n].result # returned

Unavailable(run) ==
  \/ ~run.fetchOk
  \/ ~run.ok
  \/ ~run.body
  \/ \A n \in DOMAIN run.lines : run.lines[n].type # "done"
  \/ /\ \E n \in DOMAIN run.lines :
          /\ run.lines[n].type = "done"
          /\ run.lines[n].success
          /\ run.lines[n].downloadUrl # ""
     /\ ~run.dlOk

ServerKinds == {"uploading", "server", "downloading"}

\* The contract every CompressionResult meets, whatever produced it.
ResultContract(r) ==
  /\ r.success \in BOOLEAN
  /\ r.targetReached \in BOOLEAN
  /\ r.originalSizeBytes >= 0
  /\ r.finalSizeBytes >= 0
  /\ r.targetReached => r.success
  /\ r.success => (r.outputBytes # None /\ r.errorMessage = None)
  /\ ~r.success =>
       /\ r.outputBytes = None
       /\ r.errorMessage # None
       /\ r.finalSizeBytes = 0
       /\ r.stepUsed = "none"

GateOn ==
  /\ env.APP_PASSWORD \notin {Undefined, Str(<< >>)}
  /\ env.AUTH_COOKIE_VALUE \notin {Undefined, Str(<< >>)}

\* C20 - Password gate: with APP_PASSWORD and AUTH_COOKIE_VALUE both set,
\* a request for a matched path other than /login passes only if its auth
\* cookie equals AUTH_COOKIE_VALUE and is redirected to /login otherwise;
\* with either of them unset or empty every request passes.
C20_PasswordGate ==
  (response # None) =>
    /\ (GateOn /\ Matched(request.pathname) /\ request.pathname # "/login") =>
         IF request.cookie = env.AUTH_COOKIE_VALUE
         THEN response.kind = "next"
         ELSE response = [kind |-> "redirect", location |-> "/login"]
    /\ ~GateOn => response.kind = "next"

\* With the gate on, a request for / with a cookie that is set but is not
\* the secret was redirected to /login.
C20_Witness ==
  /\ GateOn
  /\ response # None
  /\ request.pathname = "/"
  /\ request.cookie.defined
  /\ request.cookie.chars # << >>
  /\ request.cookie # env.AUTH_COOKIE_VALUE
  /\ response = [kind |-> "redirect", location |-> "/login"]

\* The last request was a POST to the given route.
LastPost(route) ==
  /\ response # None
  /\ response.kind = "json"
  /\ response.route = route

\* C21 - Login session: after any sequence of login and logout POSTs the
\* client holds an auth cookie equal to AUTH_COOKIE_VALUE exactly when auth
\* is configured and the last operation that changed its cookie was a login
\* with the password APP_PASSWORD; a wrong password gets 401 and no cookie,
\* an unconfigured server answers 503 and sets no cookie, and a logout
\* clears the cookie.
C21_LoginSession ==
  /\ (jar.defined /\ jar = env.AUTH_COOKIE_VALUE) <=>
       /\ GateOn
       /\ lastChange.op = "login"
       /\ lastChange.password = env.APP_PASSWORD
  /\ LastPost("login") =>
       /\ ~GateOn => (response.status = 503 /\ jar = request.cookie)
       /\ (GateOn /\ request.password # env.APP_PASSWORD) =>
            (response.status = 401 /\ jar = request.cookie)
       /\ (GateOn /\ request.password = env.APP_PASSWORD) =>
            (response.status = 200 /\ jar = env.AUTH_COOKIE_VALUE)
  /\ LastPost("logout") => (response.status = 200 /\ ~jar.defined)

\* A login with the right password was followed by a login with a wrong one,
\* which got 401 and left the cookie of the first in place.
C21_Witness ==
  /\ GateOn
  /\ LastPost("login")
  /\ response.status = 401
  /\ request.password.defined
  /\ jar = env.AUTH_COOKIE_VALUE
  /\ lastChange.op = "login"

\* The DPI attempts of the script that completed both passes.
Completed == { k \in DOMAIN script.tried : script.tried[k].completed }

\* C22 - Desktop script: the DPI loop tries the DPIs in ladder order and
\* none after one whose output is <= the target; the file written to the
\* output path is a smallest output among the DPIs that completed, target
\* reached or not, and comes from a DPI that completed; with no completed
\* DPI the script exits with 1 and writes no output file.
C22_ScriptBestEffort ==
  (script # None) =>
    /\ \A k \in DOMAIN script.tried : script.tried[k].dpi = script.dpiLadder[k]
    /\ \A k \in Completed :
         script.tried[k].resultSize <= script.targetBytes => k = Len(script.tried)
    /\ (script.pc = "loop") => (script.outputPdf = None /\ script.exitCode = -1)
    /\ (script.pc # "loop") =>
         \/ Len(script.tried) = Len(script.dpiLadder)
         \/ /\ Len(script.tried) \in Completed
            /\ script.tried[Len(script.tried)].resultSize <= script.targetBytes
    /\ (script.pc # "loop" /\ Completed # {}) =>
         /\ script.pc = "done"
         /\ script.exitCode = 0
         /\ \E k \in Completed :
              /\ script.outputPdf = [size |-> script.tried[k].resultSize,
                                 dpi |-> script.tried[k].dpi]
              /\ \A j \in Completed :
                   script.tried[k].resultSize <= script.tried[j].resultSize
    /\ (script.pc # "loop" /\ Completed = {}) =>
         /\ script.pc = "failed"
         /\ script.exitCode = 1
         /\ script.outputPdf = None

\* The target was not reached, a later DPI gave a larger file than an
\* earlier one, a DPI failed, and the smaller file was written.
C22_Witness ==
  /\ script # None
  /\ script.pc = "done"
  /\ Len(script.tried) = Len(script.dpiLadder)
  /\ \E j, k \in Completed :
       j < k /\ script.tried[j].resultSize < script.tried[k].resultSize
  /\ \E k \in DOMAIN script.tried : ~script.tried[k].completed
  /\ script.outputPdf.size = 30 * OneMB + 1

\* Number of times object r was handed to the Image Transcoder in pass ps.
TranscodeCount(ps, r) ==
  Cardinality({ n \in DOMAIN ps.transcoded : ps.transcoded[n] = r })

\* C23 - Shared image transcoded at most once: within one rewrite pass every
\* image object is handed to the Image Transcoder at most once, however many
\* pages or XObject entries refer to it and whatever came of the first
\* attempt (replaced, skipped as not smaller, or failed with an error).
C23_TranscodedAtMostOnce ==
  \A i \in PassesRun :
    \A r \in DOMAIN tried[i].pass.objs :
      TranscodeCount(tried[i].pass, r) <= 1

Abs(n) == IF n >= 0 THEN n ELSE -n

\* out is num/den rounded to a nearest integer.
IsRounded(out, num, den) == 2 * Abs(out * den - num) <= den

\* C24 - Resize rule: when both sides are within the cap the dimensions are
\* returned unchanged; otherwise the longer side comes out as the cap
\* exactly and the shorter one as its proportional value, rounded; the
\* result never exceeds the input on either side and never exceeds the cap.
C24_ResizeRule ==
  (resize # None /\ resize.out # None) =>
    LET w == resize.width
        h == resize.height
        c == resize.maxDimension
        o == resize.out
    IN  /\ (w <= c /\ h <= c) => o = [width |-> w, height |-> h]
        /\ (w > c \/ h > c) =>
             /\ (w >= h) => (o.width = c /\ IsRounded(o.height, h * c, w))
             /\ (h >= w) => (o.height = c /\ IsRounded(o.width, w * c, h))
        /\ o.width <= w
        /\ o.height <= h
        /\ o.width <= c
        /\ o.height <= c

\* A 4000 x 3000 bitmap was resized for the "standard" rung.
C24_Witness ==
  /\ resize # None
  /\ resize.width = 4000
  /\ resize.height = 3000
  /\ resize.maxDimension = 1200
  /\ resize.out = [width |-> 1200, height |-> 900]

\* The positions of the events of the given kind in a sequence of events.
PositionsOf(events, kind) == { n \in DOMAIN events : events[n].kind = kind }

\* The objects, of the input or embedded by the pass itself, that a pass kept
\* because their re-encoding was not smaller, and those it replaced.
KeptLarger(ps) == { k \in DOMAIN ps.cache : ps.cache[k] = 0 }
ReEncoded(ps) == { ps.embedded[n].from : n \in DOMAIN ps.embedded }

C26_TargetReachedExact ==
  returned # None =>
    /\ returned.targetReached <=> (returned.finalSizeBytes <= targetBytes)
    /\ LadderExhausted => returned.finalSizeBytes > targetBytes

\* The ladder was exhausted with a best output smaller than the original and
\* still larger than the target.
C26_Witness ==
  /\ LadderExhausted
  /\ ~returned.targetReached
  /\ returned.finalSizeBytes < originalSize
  /\ returned.finalSizeBytes > targetBytes

\* C27 - Start index is always a valid rung: for every originalSize >= 0 and
\* every targetBytes, zero and negative ones included, the estimated start
\* index is an index of its own ladder: 0..5 for COMPRESSION_LADDER, 0..3 for
\* RASTER_LADDER.
C27_StartIndexValid ==
  /\ estIn.originalSize >= 0
  /\ estOut.compress # -1 =>
       /\ estOut.compress \in 0..5
       /\ estOut.compress + 1 \in DOMAIN COMPRESSION_LADDER
  /\ estOut.raster # -1 =>
       /\ estOut.raster \in 0..3
       /\ estOut.raster + 1 \in DOMAIN RASTER_LADDER

\* Both estimates were made for a target of 0 bytes and a non-empty input.
C27_Witness ==
  /\ estIn.targetSize = 0
  /\ estIn.originalSize > 0
  /\ estOut.compress = 5
  /\ estOut.raster = 3

\* The rung attempts made so far are within the part of the ladder from the
\* start index on, and no rung was attempted twice.
RungsWithinLadder ==
  /\ startIndex >= 0 => Len(tried) <= Len(Ladder) - startIndex
  /\ \A i, j \in DOMAIN tried : i # j => tried[i].idx # tried[j].idx

\* C28 - Termination with exactly one result: every invocation of compressPdf
\* or compressPdfRasterized eventually returns a result, the result once
\* returned is never replaced by another, at most (ladder length - start
\* index) rungs are attempted and no rung is attempted twice.
C28_Termination ==
  /\ <>(pc = "returned" /\ returned # None)
  /\ [][returned # None => returned' = returned]_vars
  /\ []RungsWithinLadder

\* The driver returned after attempting every rung of the ladder from the
\* first one on.
C28_Witness ==
  /\ pc = "returned"
  /\ returned # None
  /\ startIndex = 0
  /\ Len(tried) = Len(Ladder)

RECURSIVE ProgressOf(_)
\* The messages of the well-formed progress lines among `lines`, in order.
ProgressOf(lines) ==
  IF lines = << >> THEN << >>
  ELSE LET line == Head(lines)
           text == SubSeq(line, Len(DataPrefix) + 1, Len(line))
       IN  (IF StartsWithData(line) /\ text = ProgressA THEN << "a" >>
            ELSE IF StartsWithData(line) /\ text = ProgressB THEN << "b" >>
            ELSE << >>) \o ProgressOf(Tail(lines))

\* The positions of the result lines among `lines`.
DoneLines(lines) ==
  { n \in DOMAIN lines :
      lines[n] \in { DataPrefix \o DoneOk, DataPrefix \o DoneFail } }

\* The lines of the response that end with a line feed.
EndedLines ==
  IF sse.closed THEN sse.lines
  ELSE SubSeq(sse.lines, 1, Len(sse.lines) - 1)

\* C29 - Server event-stream parsing is independent of chunking: however the
\* response is split into chunks, the progress messages forwarded and the
\* outcome are those of reading the response as one chunk: the messages of
\* the well-formed progress lines in stream order, and the last result line
\* seen, or the error "No result received from compression server" when
\* there is none; a malformed line changes nothing for the other lines.
C29_ChunkingIndependent ==
  (sse # None /\ sse.pc = "done") =>
    LET ref == Feed(ReaderStart, sse.stream)
        r   == sse.reader
    IN  /\ r.forwarded = ref.forwarded
        /\ OutcomeOf(r) = OutcomeOf(ref)
        /\ r.forwarded = ProgressOf(EndedLines)
        /\ IF DoneLines(EndedLines) = {}
           THEN /\ OutcomeOf(r).threw
                /\ OutcomeOf(r).message =
                     "No result received from compression server"
           ELSE LET last == CHOOSE n \in DoneLines(EndedLines) :
                              \A m \in DoneLines(EndedLines) : m <= n
                IN  /\ ~OutcomeOf(r).threw
                    /\ OutcomeOf(r).payload.success =
                         (EndedLines[last] = DataPrefix \o DoneOk)

\* A response of a progress line, a line cut short and a result line was
\* read in chunks of which one ended inside a line.
C29_Witness ==
  /\ sse # None
  /\ sse.pc = "done"
  /\ sse.cut
  /\ sse.closed
  /\ sse.lines = << DataPrefix \o ProgressA, DataPrefix \o << "{", "p" >>,
                    DataPrefix \o DoneOk >>
  /\ sse.reader.forwarded = << "a" >>
  /\ ~OutcomeOf(sse.reader).threw

\* C30 - No redirect loop in the password gate: for every configuration and
\* cookie, a redirect issued by the middleware leads to a path the middleware
\* passes under the same cookie: a request without the secret redirected to
\* /login passes at /login, a request with the secret redirected from /login
\* to / passes at /; following redirects stops after at most one hop.
C30_NoRedirectLoop ==
  (response # None /\ response.kind = "redirect") =>
    LET target == [pathname |-> response.location, cookie |-> request.cookie,
                   hops |-> request.hops + 1]
    IN  /\ request.hops = 0
        /\ response.location \in {"/", "/login"}
        /\ (response.location = "/login") =>
             request.cookie # env.AUTH_COOKIE_VALUE
        /\ (response.location = "/") =>
             (request.pathname = "/login" /\ request.cookie = env.AUTH_COOKIE_VALUE)
        /\ Matched(target.pathname)
        /\ middleware(env, target) = NextResponse

\* The redirect of a request for / without the secret was followed to
\* /login, which the middleware passed.
C30_Witness ==
  /\ GateOn
  /\ response # None
  /\ response.kind = "next"
  /\ request.hops = 1
  /\ request.pathname = "/login"
  /\ request.cookie # env.AUTH_COOKIE_VALUE

====
